---- MODULE Spec2Model ----
(***************************************************************************)
(* Model of the OpenPGP key-material packets of openpgpjs:                 *)
(* SecretKeyPacket (an extension of PublicKeyPacket) with its read, write, *)
(* encrypt, decrypt, validate, generate, makeDummy and clearPrivateParams  *)
(* methods.  Octet strings are sequences over 0..255; a nullable field is  *)
(* None (absent) or Some(v).                                               *)
(***************************************************************************)
EXTENDS Integers, Sequences, FiniteSets, TLC

\* ------------------------------------------------------------------ bounds
\* Number of distinct non-empty passphrases (0 stands for empty/undefined).
NumPass == 2
\* Number of distinct outputs of the random source (salt and IV) per call.
NumSeeds == 1
\* Largest first octet of a generated secret scalar d.
MaxScalar == 2
\* Number of distinct creation dates of key packets.
NumDates == 2
\* Number of distinct issuer key IDs.
NumKeyIDs == 2
\* Number of distinct values a one-pass packet accumulates in hashed.
NumDigests == 1
\* Largest number of packets on an input stream.
MaxPackets == 3
\* Greatest number of chunks a body stream delivers.
MaxChunks == 3

\* --------------------------------------------------------- program constants
SHA1_LEN == 20
SALT_LEN == 8
USAGE_AEAD == 253
USAGE_CFB == 254
USAGE_CHECKSUM == 255
BLOCK_SIZE == 16
TAG_LEN == 16
SYM_AES256 == 9
SYM_AES128 == 7
AEAD_EAX == 1
ALGO_ECDSA == 19
S2K_ITERATED == 3
S2K_GNU == 101
S2K_COUNT_BYTE == 224
HASH_SHA256 == 8
SHA256_LEN == 32
KEYID_LEN == 8
OPS_VERSION == 3
\* the least buffered length a streamed write frames as a partial chunk
minLength == 512
\* the greatest power of two a partial-length header announces
maxPower == 30
\* the first octet value of a partial-length header
PARTIAL_BASE == 224
\* enums.packet.literalData
LITERAL_DATA == 11

\* ------------------------------------------------------------ option values
None == <<>>
Some(x) == <<x>>
IsSome(o) == Len(o) = 1
Get(o) == o[1]

\* ------------------------------------------------------------- octet helpers
Sum(s) ==
  LET partial[i \in 0..Len(s)] == IF i = 0 THEN 0 ELSE partial[i - 1] + s[i]
  IN  partial[Len(s)]

AllZero(s) == \A i \in 1..Len(s) : s[i] = 0

Zeros(n) == [i \in 1..n |-> 0]

\* bytes.subarray(i) with a 0-based start index i
From(bytes, i) == SubSeq(bytes, i + 1, Len(bytes))

\* bytes.subarray(i, j) with 0-based indices, clamped like a typed array
Slice(bytes, i, j) ==
  SubSeq(bytes, i + 1, IF j > Len(bytes) THEN Len(bytes) ELSE j)

\* bytes[i] with a 0-based index; 0 stands for the undefined of a short read
At(bytes, i) == IF i + 1 <= Len(bytes) THEN bytes[i + 1] ELSE 0

\* util.writeNumber(n, k): k octets, big-endian
writeNumber(n, k) == [i \in 1..k |-> (n \div (256 ^ (k - i))) % 256]

\* util.readNumber(bytes): big-endian
readNumber(bytes) ==
  LET value[i \in 0..Len(bytes)] ==
        IF i = 0 THEN 0 ELSE value[i - 1] * 256 + bytes[i]
  IN  value[Len(bytes)]

\* util.writeChecksum: sum of the octets mod 65536, two octets
writeChecksum(bytes) == writeNumber(Sum(bytes) % 65536, 2)

\* number of significant bits of one octet
BitLength(b) == Cardinality({k \in 0..7 : 2 ^ k <= b})

StripLeadingZeros(v) ==
  LET zeros == Cardinality({i \in 1..Len(v) : \A j \in 1..i : v[j] = 0})
  IN  SubSeq(v, zeros + 1, Len(v))

\* util.uint8ArrayToMPI: two-octet bit count, then the value without leading zeros
writeMPI(v) ==
  LET s == StripLeadingZeros(v)
      bits == IF s = <<>> THEN 0 ELSE 8 * (Len(s) - 1) + BitLength(s[1])
  IN  writeNumber(bits, 2) \o s

\* util.readMPI with the short-read check of the parameter codec
readMPI(bytes) ==
  IF Len(bytes) < 2 THEN [ok |-> FALSE, value |-> <<>>, read |-> 0]
  ELSE LET bits == bytes[1] * 256 + bytes[2]
           n == (bits + 7) \div 8
       IN  IF Len(bytes) < 2 + n \/ n = 0
             THEN [ok |-> FALSE, value |-> <<>>, read |-> 0]
             ELSE [ok |-> TRUE, value |-> SubSeq(bytes, 3, 2 + n), read |-> 2 + n]

\* ------------------------------------------------- parameter codec (ECDSA)
\* crypto.serializeParams for the private parameters {d}
serializePrivate(params) == writeMPI(params.d)

\* crypto.parsePrivateKeyParams: {d} read as one MPI
parsePrivateKeyParams(bytes) ==
  LET m == readMPI(bytes)
  IN  [ok |-> m.ok, privateParams |-> [d |-> m.value]]

\* crypto.serializeParams for the public parameters {oid, Q}
serializePublic(params) == <<Len(params.oid)>> \o params.oid \o writeMPI(params.Q)

\* crypto.parsePublicKeyParams: oid with a one-octet length, then Q as an MPI
parsePublicKeyParams(bytes) ==
  IF Len(bytes) < 1 \/ bytes[1] = 0 \/ Len(bytes) < 1 + bytes[1]
    THEN [ok |-> FALSE, read |-> 0, publicParams |-> [oid |-> <<>>, Q |-> <<>>]]
    ELSE LET n == bytes[1]
             m == readMPI(From(bytes, 1 + n))
         IN  [ok |-> m.ok, read |-> 1 + n + m.read,
              publicParams |-> [oid |-> SubSeq(bytes, 2, 1 + n), Q |-> m.value]]

\* crypto.validateParams: the public point must be the one derived from d
validParams(publicParams, privateParams) ==
  publicParams.Q = <<4>> \o privateParams.d


\* ------------------------------------------------------------------- enums
\* enums.read(enums.symmetric, code); "invalid" stands for the thrown error
symmetricName(code) ==
  IF code = SYM_AES256 THEN "aes256"
  ELSE IF code = SYM_AES128 THEN "aes128"
  ELSE "invalid"

\* enums.write(enums.symmetric, name)
symmetricCode(name) == IF name = "aes256" THEN SYM_AES256 ELSE SYM_AES128

\* enums.read(enums.aead, code)
aeadName(code) == IF code = AEAD_EAX THEN "eax" ELSE "invalid"

\* enums.read(enums.publicKey, code)
publicKeyName(code) == IF code = ALGO_ECDSA THEN "ecdsa" ELSE "invalid"

\* ------------------------------------------------------------------- S2K
NoS2K == [type |-> "null", algorithm |-> 0, salt |-> <<>>, c |-> 0]

\* new S2K(config): iterated and salted, SHA-256, no salt yet
NewS2K == [type |-> "iterated", algorithm |-> HASH_SHA256, salt |-> <<>>,
           c |-> S2K_COUNT_BYTE]

GNU == <<71, 78, 85>>

\* S2K.write
s2kWrite(s) ==
  IF s.type = "gnu-dummy" THEN <<S2K_GNU, 0>> \o GNU \o <<1>>
  ELSE IF s.type = "iterated" THEN <<S2K_ITERATED, s.algorithm>> \o s.salt \o <<s.c>>
  ELSE IF s.type = "salted" THEN <<1, s.algorithm>> \o s.salt
  ELSE <<0, s.algorithm>>

\* S2K.read: fills a new specifier, returns the number of octets consumed
s2kRead(bytes) ==
  LET t == At(bytes, 0)
      base == [NewS2K EXCEPT !.algorithm = At(bytes, 1)]
  IN  IF t = S2K_ITERATED /\ Len(bytes) >= 3 + SALT_LEN
        THEN [ok |-> TRUE, read |-> 3 + SALT_LEN,
              s2k |-> [base EXCEPT !.type = "iterated",
                                   !.salt = Slice(bytes, 2, 2 + SALT_LEN),
                                   !.c = At(bytes, 2 + SALT_LEN)]]
      ELSE IF t = 1 /\ Len(bytes) >= 2 + SALT_LEN
        THEN [ok |-> TRUE, read |-> 2 + SALT_LEN,
              s2k |-> [base EXCEPT !.type = "salted",
                                   !.salt = Slice(bytes, 2, 2 + SALT_LEN)]]
      ELSE IF t = 0 /\ Len(bytes) >= 2
        THEN [ok |-> TRUE, read |-> 2, s2k |-> [base EXCEPT !.type = "simple"]]
      ELSE IF t = S2K_GNU /\ Slice(bytes, 2, 5) = GNU /\ At(bytes, 5) = 1
        THEN [ok |-> TRUE, read |-> 6, s2k |-> [base EXCEPT !.type = "gnu-dummy"]]
      ELSE [ok |-> FALSE, read |-> 0, s2k |-> base]

\* S2K.produceKey: the derived key is a function of passphrase and salt that
\* separates any two passphrases under one salt; gnu-dummy derives nothing
produceKey(s2k, passphrase) ==
  IF s2k.type \in {"gnu-dummy", "null"} THEN [ok |-> FALSE, key |-> 0]
  ELSE [ok |-> TRUE,
        key |-> (passphrase * 16 + (IF s2k.salt = <<>> THEN 0 ELSE s2k.salt[1]) + 1) % 256]

\* ----------------------------------------------------- cipher collaborators
\* crypto.hash.sha1: a 20-octet digest that changes whenever the octets are
\* all shifted by one non-zero amount (what a wrong key does to the cleartext)
sha1(bytes) == [j \in 1..SHA1_LEN |-> (2 * Sum(bytes) + Len(bytes) + j) % 256]

Shift(bytes, k) == [i \in 1..Len(bytes) |-> (bytes[i] + k + 512) % 256]

\* crypto.mode.cfb.encrypt / decrypt: length-preserving, keyed, IV-dependent
cfbEncrypt(key, plaintext, iv) == Shift(plaintext, key + At(iv, 0))
cfbDecrypt(key, ciphertext, iv) == Shift(ciphertext, 0 - key - At(iv, 0))

\* crypto.mode.eax(...).encrypt: ciphertext followed by the authentication tag
eaxTag(key, ct) == [j \in 1..TAG_LEN |-> (key + Sum(ct) + j) % 256]
eaxEncrypt(key, plaintext, nonce) ==
  LET ct == Shift(plaintext, key + At(nonce, 0)) IN ct \o eaxTag(key, ct)

\* crypto.mode.eax(...).decrypt: throws 'Authentication tag mismatch'
eaxDecrypt(key, data, nonce) ==
  IF Len(data) < TAG_LEN THEN [ok |-> FALSE, plaintext |-> <<>>]
  ELSE LET ct == SubSeq(data, 1, Len(data) - TAG_LEN)
           tag == SubSeq(data, Len(data) - TAG_LEN + 1, Len(data))
       IN  IF tag = eaxTag(key, ct)
             THEN [ok |-> TRUE, plaintext |-> Shift(ct, 0 - key - At(nonce, 0))]
             ELSE [ok |-> FALSE, plaintext |-> <<>>]

\* crypto.random.getRandomBytes(n), for the n-th value of the random source
randomBytes(n, seed) == [i \in 1..n |-> (seed * 31 + i) % 256]

\* crypto.hash.sha256: a 32-octet digest
sha256(bytes) == [j \in 1..SHA256_LEN |-> (3 * Sum(bytes) + Len(bytes) + 7 * j) % 256]

\* ------------------------------------------------------------ dates and hex
\* A Date is held as its whole seconds and the milliseconds beyond them.
\* util.normalizeDate: the milliseconds are dropped
normalizeDate(time) == [seconds |-> time.seconds, millis |-> 0]

\* util.readDate: four octets of seconds to a Date
readDate(bytes) == [seconds |-> readNumber(bytes), millis |-> 0]

\* util.writeDate: a Date to four octets of whole seconds
writeDate(time) == writeNumber(time.seconds, 4)

\* util.uint8ArrayToHex: two hexadecimal digits per octet, high digit first
uint8ArrayToHex(bytes) ==
  [i \in 1..(2 * Len(bytes)) |->
     IF i % 2 = 1 THEN bytes[(i + 1) \div 2] \div 16 ELSE bytes[i \div 2] % 16]

\* util.hexToUint8Array: one octet per pair of digits
hexToUint8Array(hex) ==
  [i \in 1..(Len(hex) \div 2) |-> hex[2 * i - 1] * 16 + hex[2 * i]]

\* ------------------------------------------------------------ PublicKeyPacket
\* the seconds of the creation date the constructor is given
CREATED == 1295801360
OID_P256 == <<42, 134, 72>>

\* constructor of PublicKeyPacket followed by that of SecretKeyPacket
NewPacket(v) ==
  [version |-> v, created |-> normalizeDate([seconds |-> CREATED, millis |-> 500]),
   algorithm |-> "null",
   publicParams |-> None,
   keyMaterial |-> None, isEncrypted |-> "null", s2kUsage |-> 0,
   s2k |-> NoS2K, symmetric |-> "null", aead |-> "null",
   privateParams |-> None, iv |-> None,
   fingerprint |-> None, keyID |-> None,
   \* whether the parameter buffers are views on the keyMaterial buffer
   aliased |-> FALSE]

\* PublicKeyPacket.write without the four-octet length of a version 5 packet
writePublicKey_noV5Length(p) ==
  IF p.algorithm \notin {"ecdsa"} \/ ~IsSome(p.publicParams)
    THEN [err |-> "TypeError", bytes |-> <<>>]
    ELSE [err |-> "none",
          bytes |-> <<p.version>> \o writeDate(p.created) \o <<ALGO_ECDSA>>
                    \o serializePublic(Get(p.publicParams))]

\* PublicKeyPacket.write; err is "TypeError" when a field it needs is absent
writePublicKey(p) ==
  IF p.algorithm \notin {"ecdsa"} \/ ~IsSome(p.publicParams)
    THEN [err |-> "TypeError", bytes |-> <<>>]
    ELSE LET params == serializePublic(Get(p.publicParams))
         IN  [err |-> "none",
              bytes |-> <<p.version>> \o writeDate(p.created) \o <<ALGO_ECDSA>>
                        \o (IF p.version = 5 THEN writeNumber(Len(params), 4) ELSE <<>>)
                        \o params]

\* PublicKeyPacket.read, the algorithm-specific parameters at offset pos
readPublicParams(p, r, pos) ==
  IF ~r.ok THEN [pkt |-> p, err |-> "MalformedParams", pos |-> pos]
  ELSE [pkt |-> [p EXCEPT !.publicParams = Some(r.publicParams)],
        err |-> "none", pos |-> pos + r.read]

\* PublicKeyPacket.read, after the version: creation time, algorithm, and for
\* version 5 the four-octet length of the parameters
readPublicFields(p, bytes, created, algorithm, pos) ==
  IF algorithm = "invalid"
    THEN [pkt |-> [p EXCEPT !.created = created], err |-> "UnknownEnum", pos |-> 6]
    ELSE readPublicParams([p EXCEPT !.created = created, !.algorithm = algorithm],
                          parsePublicKeyParams(From(bytes, pos)), pos)

\* PublicKeyPacket.read: returns the offset after the public fields
readPublicKey(p, bytes) ==
  IF At(bytes, 0) \notin {4, 5}
    THEN [pkt |-> [p EXCEPT !.version = At(bytes, 0)],
          err |-> "UnsupportedVersion", pos |-> 1]
    ELSE readPublicFields([p EXCEPT !.version = At(bytes, 0)], bytes,
                          readDate(Slice(bytes, 1, 5)),
                          publicKeyName(At(bytes, 5)),
                          IF At(bytes, 0) = 5 THEN 10 ELSE 6)


\* PublicKeyPacket.writeForHash, the framing of the written packet w
frameForHash(w, version) ==
  IF w.err # "none" THEN [err |-> w.err, bytes |-> <<>>]
  ELSE IF version = 5
    THEN [err |-> "none",
          bytes |-> <<154>> \o writeNumber(Len(w.bytes), 4) \o w.bytes]
  ELSE [err |-> "none", bytes |-> <<153>> \o writeNumber(Len(w.bytes), 2) \o w.bytes]

\* PublicKeyPacket.writeForHash
writeForHash(p, version) == frameForHash(writePublicKey(p), version)

\* getFingerprintBytes, the hash of toHash chosen by the version; with any
\* other version the fingerprint stays null and null is returned
hashForVersion(p, toHash) ==
  IF toHash.err # "none" THEN [pkt |-> p, err |-> toHash.err, ret |-> None]
  ELSE IF p.version = 5
    THEN [pkt |-> [p EXCEPT !.fingerprint = Some(sha256(toHash.bytes))],
          err |-> "none", ret |-> Some(sha256(toHash.bytes))]
  ELSE IF p.version = 4
    THEN [pkt |-> [p EXCEPT !.fingerprint = Some(sha1(toHash.bytes))],
          err |-> "none", ret |-> Some(sha1(toHash.bytes))]
  ELSE [pkt |-> p, err |-> "none", ret |-> None]

\* PublicKeyPacket.getFingerprintBytes: the cached fingerprint if there is one
getFingerprintBytes(p) ==
  IF IsSome(p.fingerprint) THEN [pkt |-> p, err |-> "none", ret |-> p.fingerprint]
  ELSE hashForVersion(p, writeForHash(p, p.version))

\* PublicKeyPacket.getFingerprint, the hexadecimal form of the bytes f
hexOfFingerprint(f) ==
  IF f.err # "none" THEN f
  ELSE IF ~IsSome(f.ret) THEN [pkt |-> f.pkt, err |-> "TypeError", ret |-> None]
  ELSE [pkt |-> f.pkt, err |-> "none", ret |-> Some(uint8ArrayToHex(Get(f.ret)))]

\* PublicKeyPacket.getFingerprint
getFingerprint(p) == hexOfFingerprint(getFingerprintBytes(p))

\* getKeyID, KeyID.read of eight octets of the fingerprint f (in hexadecimal)
keyIDFromFingerprint(f) ==
  IF f.err # "none" THEN f
  ELSE IF f.pkt.version = 5
    THEN [pkt |-> [f.pkt EXCEPT !.keyID =
                     Some(Slice(hexToUint8Array(Get(f.ret)), 0, KEYID_LEN))],
          err |-> "none",
          ret |-> Some(Slice(hexToUint8Array(Get(f.ret)), 0, KEYID_LEN))]
  ELSE [pkt |-> [f.pkt EXCEPT !.keyID =
                   Some(Slice(hexToUint8Array(Get(f.ret)), 12, 12 + KEYID_LEN))],
        err |-> "none",
        ret |-> Some(Slice(hexToUint8Array(Get(f.ret)), 12, 12 + KEYID_LEN))]

\* PublicKeyPacket.getKeyID: the cached key ID if there is one; otherwise a
\* new, empty KeyID is stored first and then filled from the fingerprint
getKeyID(p) ==
  IF IsSome(p.keyID) THEN [pkt |-> p, err |-> "none", ret |-> p.keyID]
  ELSE IF p.version \in {4, 5}
    THEN keyIDFromFingerprint(getFingerprint([p EXCEPT !.keyID = Some(<<>>)]))
  ELSE [pkt |-> [p EXCEPT !.keyID = Some(<<>>)], err |-> "none", ret |-> Some(<<>>)]


\* ------------------------------------------------------------ SecretKeyPacket
\* SecretKeyPacket.isDecrypted
isDecrypted(p) == p.isEncrypted = "false"

\* SecretKeyPacket.isDummy
isDummy(p) == p.s2k.type = "gnu-dummy"

\* read of an unprotected body that parses the cleartext whatever the checksum
readCleartext_noChecksum(p, cleartext, checksum, view) ==
  IF ~parsePrivateKeyParams(cleartext).ok
    THEN [pkt |-> p, err |-> "MalformedSecret"]
  ELSE [pkt |-> [p EXCEPT !.privateParams =
                            Some(parsePrivateKeyParams(cleartext).privateParams),
                          !.aliased = view],
        err |-> "none"]

\* read, an unprotected body: the two-octet checksum is verified and the
\* private parameters are parsed from the cleartext
readCleartext(p, cleartext, checksum, view) ==
  IF writeChecksum(cleartext) # checksum THEN [pkt |-> p, err |-> "ChecksumMismatch"]
  ELSE IF ~parsePrivateKeyParams(cleartext).ok
    THEN [pkt |-> p, err |-> "MalformedSecret"]
  ELSE [pkt |-> [p EXCEPT !.privateParams =
                            Some(parsePrivateKeyParams(cleartext).privateParams),
                          !.aliased = view],
        err |-> "none"]

\* read, the remainder of the body km becomes keyMaterial
readKeyMaterial(p, km, view) ==
  IF p.s2kUsage # 0
    THEN [pkt |-> [p EXCEPT !.keyMaterial = Some(km), !.isEncrypted = "true",
                            !.aliased = FALSE],
          err |-> "none"]
    ELSE readCleartext([p EXCEPT !.keyMaterial = Some(km), !.isEncrypted = "false",
                                 !.aliased = FALSE],
                       SubSeq(km, 1, Len(km) - 2),
                       SubSeq(km, IF Len(km) > 2 THEN Len(km) - 1 ELSE 1, Len(km)),
                       view)

\* read, from the IV on: the IV of a protected body, then for version 5 the
\* four-octet length of the key material
readMaterial(p, bytes, i, view) ==
  IF p.s2kUsage # 0
    THEN readKeyMaterial(
           [p EXCEPT !.iv = Some(Slice(bytes, i, i + BLOCK_SIZE))],
           From(bytes, i + Len(Slice(bytes, i, i + BLOCK_SIZE))
                         + (IF p.version = 5 THEN 4 ELSE 0)),
           view)
    ELSE readKeyMaterial(p, From(bytes, i + (IF p.version = 5 THEN 4 ELSE 0)), view)

\* read, the S2K specifier sr that was parsed at offset i
readS2K(p, sr, bytes, i, view) ==
  IF ~sr.ok THEN [pkt |-> [p EXCEPT !.s2k = sr.s2k], err |-> "UnknownS2K"]
  ELSE IF sr.s2k.type = "gnu-dummy"
    THEN [pkt |-> [p EXCEPT !.s2k = sr.s2k], err |-> "none"]
  ELSE readMaterial([p EXCEPT !.s2k = sr.s2k], bytes, i + sr.read, view)

\* read, s2kUsage 253: the AEAD algorithm precedes the S2K specifier
readAead(p, aead, bytes, i, view) ==
  IF aead = "invalid" THEN [pkt |-> [p EXCEPT !.aead = aead], err |-> "UnknownEnum"]
  ELSE readS2K([p EXCEPT !.aead = aead], s2kRead(From(bytes, i + 1)), bytes, i + 1,
               view)

\* read, s2kUsage 253, 254 or 255: symmetric algorithm, optional AEAD
\* algorithm, S2K specifier
readSpecifier(p, sym, bytes, i, view) ==
  IF sym = "invalid" THEN [pkt |-> [p EXCEPT !.symmetric = sym], err |-> "UnknownEnum"]
  ELSE IF p.s2kUsage = USAGE_AEAD
    THEN readAead([p EXCEPT !.symmetric = sym], aeadName(At(bytes, i + 1)), bytes,
                  i + 1, view)
  ELSE readS2K([p EXCEPT !.symmetric = sym], s2kRead(From(bytes, i + 1)), bytes,
               i + 1, view)

\* read, any other non-zero s2kUsage is itself the symmetric algorithm
readDirect(p, sym, bytes, i, view) ==
  IF sym = "invalid" THEN [pkt |-> [p EXCEPT !.symmetric = sym], err |-> "UnknownEnum"]
  ELSE readMaterial([p EXCEPT !.symmetric = sym], bytes, i, view)

\* read, after the s2kUsage octet (and the count octet of version 5)
readUsage(p, bytes, i, view) ==
  IF p.s2kUsage \in {USAGE_CHECKSUM, USAGE_CFB, USAGE_AEAD}
    THEN readSpecifier(p, symmetricName(At(bytes, i)), bytes, i, view)
  ELSE IF p.s2kUsage # 0
    THEN readDirect(p, symmetricName(p.s2kUsage), bytes, i, view)
  ELSE readMaterial(p, bytes, i, view)

\* read, after the public fields pk has parsed
readSecret(pk, bytes, view) ==
  IF pk.err # "none" THEN [pkt |-> pk.pkt, err |-> pk.err]
  ELSE readUsage([pk.pkt EXCEPT !.s2kUsage = At(bytes, pk.pos)], bytes,
                 pk.pos + 1 + (IF pk.pkt.version = 5 THEN 1 ELSE 0), view)

\* SecretKeyPacket.read.  view: whether the parameter codec returns views on
\* the input buffer (readMPI is a subarray) or copies.
read(p, bytes, view) == readSecret(readPublicKey(p, bytes), bytes, view)

\* write, the optional fields: symmetric algorithm, AEAD algorithm, S2K
\* specifier, IV
writeOptionalFields(p) ==
  (IF p.s2kUsage \in {USAGE_CHECKSUM, USAGE_CFB, USAGE_AEAD}
     THEN <<symmetricCode(p.symmetric)>>
          \o (IF p.s2kUsage = USAGE_AEAD THEN <<AEAD_EAX>> ELSE <<>>)
          \o s2kWrite(p.s2k)
     ELSE <<>>)
  \o (IF p.s2kUsage # 0 /\ p.s2k.type # "gnu-dummy" THEN Get(p.iv) ELSE <<>>)

\* writeMaterial without the four-octet length a version 5 packet carries
writeMaterial_noV5Length(p, head) ==
  IF p.s2kUsage = 0 /\ ~IsSome(p.privateParams)
    THEN [pkt |-> p, err |-> "TypeError", bytes |-> <<>>]
  ELSE IF p.s2kUsage # 0 /\ ~IsSome(p.keyMaterial)
    THEN [pkt |-> p, err |-> "TypeError", bytes |-> <<>>]
  ELSE
    LET km == IF p.s2kUsage = 0 THEN serializePrivate(Get(p.privateParams))
              ELSE Get(p.keyMaterial)
        p1 == IF p.s2kUsage = 0
                THEN [p EXCEPT !.keyMaterial = Some(km), !.aliased = FALSE]
                ELSE p
    IN  [pkt |-> p1, err |-> "none",
         bytes |-> head \o km \o (IF p.s2kUsage = 0 THEN writeChecksum(km) ELSE <<>>)]

\* write, the key material: serialized afresh (and stored in keyMaterial) when
\* s2kUsage is 0, followed then by the two-octet checksum
writeMaterial(p, head) ==
  IF p.s2kUsage = 0 /\ ~IsSome(p.privateParams)
    THEN [pkt |-> p, err |-> "TypeError", bytes |-> <<>>]
  ELSE IF p.s2kUsage # 0 /\ ~IsSome(p.keyMaterial)
    THEN [pkt |-> p, err |-> "TypeError", bytes |-> <<>>]
  ELSE
    LET km == IF p.s2kUsage = 0 THEN serializePrivate(Get(p.privateParams))
              ELSE Get(p.keyMaterial)
        p1 == IF p.s2kUsage = 0
                THEN [p EXCEPT !.keyMaterial = Some(km), !.aliased = FALSE]
                ELSE p
    IN  [pkt |-> p1, err |-> "none",
         bytes |-> head
                   \o (IF p.version = 5 THEN writeNumber(Len(km), 4) ELSE <<>>)
                   \o km
                   \o (IF p.s2kUsage = 0 THEN writeChecksum(km) ELSE <<>>)]

\* SecretKeyPacket.write; "TypeError" stands for the exception JavaScript
\* raises when a field the method dereferences is null or undefined
write(p) ==
  LET pub == writePublicKey(p)
      hasS2K == p.s2kUsage \in {USAGE_CHECKSUM, USAGE_CFB, USAGE_AEAD}
      broken == \/ pub.err # "none"
                \/ p.s2kUsage # 0 /\ p.s2k.type = "null"
                \/ hasS2K /\ p.symmetric \notin {"aes256", "aes128"}
                \/ p.s2kUsage = USAGE_AEAD /\ p.aead # "eax"
                \/ p.s2kUsage # 0 /\ p.s2k.type \notin {"null", "gnu-dummy"}
                     /\ ~IsSome(p.iv)
  IN  IF broken THEN [pkt |-> p, err |-> "TypeError", bytes |-> <<>>]
      ELSE
        LET optional == writeOptionalFields(p)
            head == pub.bytes \o <<p.s2kUsage>>
                    \o (IF p.version = 5 THEN <<Len(optional)>> ELSE <<>>)
                    \o optional
        IN  IF isDummy(p) THEN [pkt |-> p, err |-> "none", bytes |-> head]
            ELSE writeMaterial(p, head)

\* SecretKeyPacket.clearPrivateParams.  buffers: the contents of the parameter
\* buffers when the call returns.
clearPrivateParams(p) ==
  IF isDummy(p) THEN [pkt |-> p, err |-> "none", buffers |-> <<>>]
  ELSE IF ~IsSome(p.privateParams)
    THEN [pkt |-> p, err |-> "TypeError", buffers |-> <<>>]
  ELSE
    LET d == Get(p.privateParams).d
        km == IF p.aliased /\ IsSome(p.keyMaterial)
                THEN LET k == Get(p.keyMaterial)
                     IN  Some([i \in 1..Len(k) |->
                                 IF i > 2 /\ i <= 2 + Len(d) THEN 0 ELSE k[i]])
                ELSE p.keyMaterial
    IN  [pkt |-> [p EXCEPT !.privateParams = None, !.isEncrypted = "true",
                           !.keyMaterial = km, !.aliased = FALSE],
         err |-> "none", buffers |-> <<Zeros(Len(d))>>]

\* makeDummy that leaves keyMaterial in place
makeDummy_keepMaterial(p) ==
  IF isDummy(p) THEN [pkt |-> p, err |-> "none"]
  ELSE
    LET c == IF isDecrypted(p) THEN clearPrivateParams(p)
             ELSE [pkt |-> p, err |-> "none", buffers |-> <<>>]
    IN  IF c.err # "none" THEN [pkt |-> c.pkt, err |-> c.err]
        ELSE [pkt |-> [c.pkt EXCEPT !.isEncrypted = "null",
                                    !.s2k = [NewS2K EXCEPT !.algorithm = 0, !.c = 0,
                                                           !.type = "gnu-dummy"],
                                    !.s2kUsage = USAGE_CFB,
                                    !.symmetric = "aes256"],
              err |-> "none"]

\* SecretKeyPacket.makeDummy
makeDummy(p) ==
  IF isDummy(p) THEN [pkt |-> p, err |-> "none"]
  ELSE
    LET c == IF isDecrypted(p) THEN clearPrivateParams(p)
             ELSE [pkt |-> p, err |-> "none", buffers |-> <<>>]
    IN  IF c.err # "none" THEN [pkt |-> c.pkt, err |-> c.err]
        ELSE [pkt |-> [c.pkt EXCEPT !.isEncrypted = "null", !.keyMaterial = None,
                                    !.s2k = [NewS2K EXCEPT !.algorithm = 0, !.c = 0,
                                                           !.type = "gnu-dummy"],
                                    !.s2kUsage = USAGE_CFB,
                                    !.symmetric = "aes256"],
              err |-> "none"]

\* encrypt, the protection of the serialized parameters under the derived key
encryptMaterial(p, cleartext, key, aeadProtect) ==
  IF aeadProtect
    THEN [p EXCEPT !.s2kUsage = USAGE_AEAD, !.aead = "eax",
                   !.keyMaterial = Some(eaxEncrypt(key, cleartext, Get(p.iv))),
                   !.aliased = FALSE]
    ELSE [p EXCEPT !.s2kUsage = USAGE_CFB,
                   !.keyMaterial =
                      Some(cfbEncrypt(key, cleartext \o sha1(cleartext), Get(p.iv))),
                   !.aliased = FALSE]

\* encrypt whose empty-passphrase branch returns without clearing s2kUsage
encrypt_keepUsage(p, passphrase, aeadProtect, salt, ivSeed) ==
  IF isDummy(p) THEN [pkt |-> p, err |-> "none"]
  ELSE IF ~isDecrypted(p) THEN [pkt |-> p, err |-> "AlreadyEncrypted"]
  ELSE IF passphrase = 0 THEN [pkt |-> p, err |-> "none"]
  ELSE
    LET s2k == [NewS2K EXCEPT !.salt = randomBytes(SALT_LEN, salt)]
        p1 == [p EXCEPT !.s2k = s2k]
    IN  IF ~IsSome(p.privateParams) THEN [pkt |-> p1, err |-> "TypeError"]
        ELSE
          LET cleartext == serializePrivate(Get(p.privateParams))
              key == produceKey(s2k, passphrase).key
              p2 == [p1 EXCEPT !.symmetric = "aes256",
                               !.iv = Some(randomBytes(BLOCK_SIZE, ivSeed))]
          IN  [pkt |-> encryptMaterial(p2, cleartext, key, aeadProtect),
               err |-> "none"]

\* SecretKeyPacket.encrypt; passphrase 0 is the empty or undefined passphrase;
\* salt and ivSeed select the values returned by the random source
encrypt(p, passphrase, aeadProtect, salt, ivSeed) ==
  IF isDummy(p) THEN [pkt |-> p, err |-> "none"]
  ELSE IF ~isDecrypted(p) THEN [pkt |-> p, err |-> "AlreadyEncrypted"]
  ELSE IF passphrase = 0 THEN [pkt |-> [p EXCEPT !.s2kUsage = 0], err |-> "none"]
  ELSE
    LET s2k == [NewS2K EXCEPT !.salt = randomBytes(SALT_LEN, salt)]
        p1 == [p EXCEPT !.s2k = s2k]
    IN  IF ~IsSome(p.privateParams) THEN [pkt |-> p1, err |-> "TypeError"]
        ELSE
          LET cleartext == serializePrivate(Get(p.privateParams))
              key == produceKey(s2k, passphrase).key
              p2 == [p1 EXCEPT !.symmetric = "aes256",
                               !.iv = Some(randomBytes(BLOCK_SIZE, ivSeed))]
          IN  [pkt |-> encryptMaterial(p2, cleartext, key, aeadProtect),
               err |-> "none"]

\* decrypt, the final assignments after the parameters were parsed
decryptCommit(p, privateParams) ==
  [p EXCEPT !.privateParams = Some(privateParams), !.isEncrypted = "false",
            !.keyMaterial = None, !.s2kUsage = 0, !.aliased = FALSE]

\* decryptParse that marks the packet decrypted before the parameters parse
decryptParse_commitFirst(p, cleartext) ==
  LET r == parsePrivateKeyParams(cleartext)
      p1 == [p EXCEPT !.isEncrypted = "false", !.keyMaterial = None, !.s2kUsage = 0]
  IN  IF ~r.ok
        THEN [pkt |-> p1, err |-> "MalformedSecret", ret |-> "none",
              cleartext |-> Some(cleartext)]
        ELSE [pkt |-> decryptCommit(p, r.privateParams), err |-> "none",
              ret |-> "undefined", cleartext |-> Some(cleartext)]

\* decrypt, from the cleartext on: parse the parameters and commit.
\* cleartext in the result: the contents of the cleartext buffer on return.
decryptParse(p, cleartext) ==
  LET r == parsePrivateKeyParams(cleartext)
  IN  IF ~r.ok
        THEN [pkt |-> p, err |-> "MalformedSecret", ret |-> "none",
              cleartext |-> Some(cleartext)]
        ELSE [pkt |-> decryptCommit(p, r.privateParams), err |-> "none",
              ret |-> "undefined", cleartext |-> Some(cleartext)]

\* decrypt, s2kUsage 253: AEAD, a tag mismatch is an incorrect passphrase
decryptAead(p, key) ==
  IF p.aead # "eax" \/ ~IsSome(p.keyMaterial) \/ ~IsSome(p.iv)
    THEN [pkt |-> p, err |-> "TypeError", ret |-> "none", cleartext |-> None]
  ELSE
    LET r == eaxDecrypt(key, Get(p.keyMaterial), Get(p.iv))
    IN  IF ~r.ok
          THEN [pkt |-> p, err |-> "IncorrectPassphrase", ret |-> "none",
                cleartext |-> None]
          ELSE decryptParse(p, r.plaintext)

\* decryptCfb without the comparison of the SHA-1 digests
decryptCfb_noHash(p, key) ==
  IF ~IsSome(p.keyMaterial) \/ ~IsSome(p.iv)
    THEN [pkt |-> p, err |-> "TypeError", ret |-> "none", cleartext |-> None]
  ELSE
    LET cleartextWithHash == cfbDecrypt(key, Get(p.keyMaterial), Get(p.iv))
        n == Len(cleartextWithHash)
        cleartext == SubSeq(cleartextWithHash, 1, n - SHA1_LEN)
    IN  decryptParse(p, cleartext)

\* decrypt, s2kUsage 254: CFB, then the SHA-1 of the cleartext is compared
\* with the trailing 20 octets
decryptCfb(p, key) ==
  IF ~IsSome(p.keyMaterial) \/ ~IsSome(p.iv)
    THEN [pkt |-> p, err |-> "TypeError", ret |-> "none", cleartext |-> None]
  ELSE
    LET cleartextWithHash == cfbDecrypt(key, Get(p.keyMaterial), Get(p.iv))
        n == Len(cleartextWithHash)
        cleartext == SubSeq(cleartextWithHash, 1, n - SHA1_LEN)
        tail == SubSeq(cleartextWithHash,
                       IF n > SHA1_LEN THEN n - SHA1_LEN + 1 ELSE 1, n)
    IN  IF sha1(cleartext) # tail
          THEN [pkt |-> p, err |-> "IncorrectPassphrase", ret |-> "none",
                cleartext |-> Some(cleartext)]
          ELSE decryptParse(p, cleartext)

\* SecretKeyPacket.decrypt
decrypt(p, passphrase) ==
  IF isDummy(p) THEN [pkt |-> p, err |-> "none", ret |-> "false", cleartext |-> None]
  ELSE IF isDecrypted(p)
    THEN [pkt |-> p, err |-> "AlreadyDecrypted", ret |-> "none", cleartext |-> None]
  ELSE IF p.s2kUsage \notin {USAGE_CFB, USAGE_AEAD}
    THEN [pkt |-> p, err |-> "InsecureS2K", ret |-> "none", cleartext |-> None]
  ELSE
    LET k == produceKey(p.s2k, passphrase)
    IN  IF ~k.ok
          THEN [pkt |-> p, err |-> "S2KError", ret |-> "none", cleartext |-> None]
        ELSE IF p.s2kUsage = USAGE_AEAD THEN decryptAead(p, k.key)
        ELSE decryptCfb(p, k.key)

\* SecretKeyPacket.validate
validate(p) ==
  IF isDummy(p) THEN [pkt |-> p, err |-> "none"]
  ELSE IF ~isDecrypted(p) THEN [pkt |-> p, err |-> "NotDecrypted"]
  ELSE IF IsSome(p.privateParams) /\ IsSome(p.publicParams)
          /\ validParams(Get(p.publicParams), Get(p.privateParams))
    THEN [pkt |-> p, err |-> "none"]
  ELSE [pkt |-> p, err |-> "ValidationFailed"]

\* SecretKeyPacket.generate with the parameters crypto.generateParams returns
\* for the secret scalar d; the caller has set the algorithm
generate(p, d) ==
  [p EXCEPT !.algorithm = "ecdsa",
            !.privateParams = Some([d |-> d]),
            !.publicParams = Some([oid |-> OID_P256, Q |-> <<4>> \o d]),
            !.isEncrypted = "false", !.aliased = FALSE]


\* ------------------------------------------------------ OnePassSignaturePacket
\* constructor of OnePassSignaturePacket; hashed is the value hash() accumulates
NewOnePass ==
  [version |-> None, signatureType |-> None, hashAlgorithm |-> None,
   publicKeyAlgorithm |-> None, issuerKeyID |-> None, flags |-> None,
   hashed |-> None]

\* the codes enums.signature, enums.hash and enums.publicKey know
SignatureCodes == {0, 1}
HashCodes == {2, HASH_SHA256}
PublicKeyCodes == {1, ALGO_ECDSA}

\* enums.write(type, e) for a field read from the wire: the code itself when
\* the enumeration knows it, -1 for the error thrown otherwise
enumWrite(codes, field) ==
  IF IsSome(field) /\ Get(field) \in codes THEN Get(field) ELSE -1

\* OnePassSignaturePacket.read
onePassRead(p, bytes) ==
  [pkt |-> [p EXCEPT !.version = Some(At(bytes, 0)),
                     !.signatureType = Some(At(bytes, 1)),
                     !.hashAlgorithm = Some(At(bytes, 2)),
                     !.publicKeyAlgorithm = Some(At(bytes, 3)),
                     !.issuerKeyID = Some(Slice(bytes, 4, 4 + KEYID_LEN)),
                     !.flags = Some(At(bytes, 4 + KEYID_LEN))],
   err |-> "none"]

\* OnePassSignaturePacket.write
onePassWrite(p) ==
  IF \/ enumWrite(SignatureCodes, p.signatureType) < 0
     \/ enumWrite(HashCodes, p.hashAlgorithm) < 0
     \/ enumWrite(PublicKeyCodes, p.publicKeyAlgorithm) < 0
    THEN [err |-> "InvalidEnum", bytes |-> <<>>]
  ELSE IF ~IsSome(p.issuerKeyID) THEN [err |-> "TypeError", bytes |-> <<>>]
  ELSE [err |-> "none",
        bytes |-> <<OPS_VERSION, enumWrite(SignatureCodes, p.signatureType),
                    enumWrite(HashCodes, p.hashAlgorithm),
                    enumWrite(PublicKeyCodes, p.publicKeyAlgorithm)>>
                  \o Get(p.issuerKeyID)
                  \o <<IF IsSome(p.flags) THEN Get(p.flags) ELSE 0>>]

\* the comparison of verify without that of the issuer key IDs
onePassMatches_noIssuer(p, sig) ==
  /\ Some(sig.signatureType) = p.signatureType
  /\ Some(sig.hashAlgorithm) = p.hashAlgorithm
  /\ Some(sig.publicKeyAlgorithm) = p.publicKeyAlgorithm

\* verify, the comparison of the trailing signature with the one-pass packet
onePassMatches(p, sig) ==
  /\ Some(sig.signatureType) = p.signatureType
  /\ Some(sig.hashAlgorithm) = p.hashAlgorithm
  /\ Some(sig.publicKeyAlgorithm) = p.publicKeyAlgorithm
  /\ Some(sig.issuerKeyID) = p.issuerKeyID

\* OnePassSignaturePacket.verify.  sig: what correspondingSig resolves to, None
\* or Some packet; called: whether correspondingSig.verify was invoked
onePassVerify(p, sig) ==
  IF ~IsSome(sig) \/ Get(sig).tag # "signature"
    THEN [sig |-> sig, err |-> "MissingTrailingSignature", called |-> FALSE]
  ELSE IF ~onePassMatches(p, Get(sig))
    THEN [sig |-> sig, err |-> "MismatchedTrailingSignature", called |-> FALSE]
  ELSE [sig |-> Some([Get(sig) EXCEPT !.hashed = p.hashed]), err |-> "none",
        called |-> TRUE]

\* ------------------------------------------------------------------ PacketList
\* supportsStreaming(tag): the tags that carry bulk data
supportsStreaming(tag) ==
  tag \in {"literalData", "compressedData", "symmetricallyEncryptedData"}

\* push that adds the packet at the front of the array
push_front(arr, packet) == IF packet = None THEN arr ELSE <<Get(packet)>> \o arr

\* PacketList.push: a falsy packet is ignored, any other is appended
push(arr, packet) == IF packet = None THEN arr ELSE Append(arr, Get(packet))

\* the packet parsed from the i-th token of the input
PacketAt(input, i) == [index |-> i, tag |-> input[i].tag]

\* the packets of the first n tokens that parse, in input order
Accepted(input, n) ==
  LET acc[i \in 0..n] ==
        IF i = 0 THEN <<>>
        ELSE IF input[i].ok THEN Append(acc[i - 1], PacketAt(input, i))
        ELSE acc[i - 1]
  IN  acc[n]

\* the error the try block around one packet ends with: newPacketFromTag
\* throws for a tag that is not in allowedPackets, otherwise the packet's read
\* may throw
parseError(token) ==
  IF ~token.allowed THEN "DisallowedPacket"
  ELSE IF ~token.ok THEN "ParseError"
  ELSE "none"

\* a catch that aborts the output stream only when config.tolerant is off
abortsOnError_tolerantOnly(tolerant, tag) == ~tolerant

\* the catch around one packet: whether a parse error aborts the output stream
abortsOnError(tolerant, tag) == ~tolerant \/ supportsStreaming(tag)

\* writer.abort(e): the output stream is errored with cause e and what it
\* still held is discarded
abortOutput(p, e) == [p EXCEPT !.state = "errored", !.cause = e, !.queue = <<>>]

\* a catch around the whole pipeline that closes the output stream
onPipelineError_close(p, e) == [p EXCEPT !.state = "closed"]

\* the catch around the whole pipeline: an error of the input stream aborts
\* the output stream with the same cause
onPipelineError(p, e) == abortOutput(p, e)

\* the drain loop of read never ends at a streaming-capable packet
readStops_onlyDone(done, value) == done

\* the drain loop of read ends when the stream is done or the packet just
\* pushed is streaming-capable
readStops(done, value) ==
  IF done THEN TRUE ELSE supportsStreaming(Get(value).tag)


\* ------------------------------------------------------ inputs of the model
\* 0 is the empty (or undefined) passphrase
Passphrases == 0..NumPass
\* the outputs of the random source: seed n gives one salt and one IV
Seeds == 0..(NumSeeds - 1)
\* secret scalars crypto.generateParams may return
Scalars == {<<x>> : x \in 1..MaxScalar} \cup {<<1, 0>>}
Versions == {4, 5}

\* A secret-key body as another OpenPGP implementation writes it (the layout
\* read parses), protected under passphrase 1 where it is protected:
\*   usage 0: cleartext and checksum (sumOk: whether the checksum is right);
\*   usage 253 / 254: AEAD / CFB with SHA-1;
\*   usage 255: CFB with the two-octet checksum; other: a bare algorithm code.
\* the S2K specifier, derived key and IV of a protected foreign body
ForeignS2K == [NewS2K EXCEPT !.salt = randomBytes(SALT_LEN, 0)]
ForeignKey == produceKey(ForeignS2K, 1).key
ForeignIV == randomBytes(BLOCK_SIZE, 0)

\* the optional fields between the s2kUsage octet and the key material
foreignOptional(usage) ==
  IF usage = 0 THEN <<>>
  ELSE IF usage = USAGE_AEAD
    THEN <<SYM_AES256, AEAD_EAX>> \o s2kWrite(ForeignS2K) \o ForeignIV
  ELSE IF usage \in {USAGE_CFB, USAGE_CHECKSUM}
    THEN <<SYM_AES256>> \o s2kWrite(ForeignS2K) \o ForeignIV
  ELSE ForeignIV

\* the key material: cleartext with checksum, or the protected cleartext
foreignMaterial(usage, cleartext, sum, sumOk) ==
  IF usage = 0
    THEN cleartext \o (IF sumOk THEN sum ELSE <<sum[1], (sum[2] + 1) % 256>>)
  ELSE IF usage = USAGE_AEAD THEN eaxEncrypt(ForeignKey, cleartext, ForeignIV)
  ELSE IF usage = USAGE_CFB
    THEN cfbEncrypt(ForeignKey, cleartext \o sha1(cleartext), ForeignIV)
  ELSE cfbEncrypt(ForeignKey, cleartext \o sum, ForeignIV)

\* the fields in the order read consumes them
foreignLayout(v, usage, pub, optional, km) ==
  pub \o <<usage>>
  \o (IF v = 5 THEN <<Len(optional)>> ELSE <<>>)
  \o optional
  \o (IF v = 5 THEN writeNumber(Len(km) - (IF usage = 0 THEN 2 ELSE 0), 4) ELSE <<>>)
  \o km

foreignBody(v, usage, cleartext, sumOk) ==
  foreignLayout(v, usage, writePublicKey(generate(NewPacket(v), <<1>>)).bytes,
                foreignOptional(usage),
                foreignMaterial(usage, cleartext, writeChecksum(cleartext), sumOk))

\* cleartexts of a foreign body: the serialized scalar <<1>>, and one whose MPI
\* announces more octets than follow
GoodCleartext == serializePrivate([d |-> <<1>>])
BadCleartext == <<0, 16, 5>>
ForeignUsages == {0, USAGE_AEAD, USAGE_CFB, USAGE_CHECKSUM, SYM_AES256}

\* --------------------------------------------------------------- the state
VARIABLES
  pkt,       \* the SecretKeyPacket object
  wire,      \* None, or Some of the octets write has just returned (with the
             \* passphrase that protects them)
  prev,      \* pkt as it was when the last operation was called
  last,      \* the last operation: its name, arguments and outcome
  prot,      \* the passphrase that protects pkt's keyMaterial, -1 if none, and
             \* whether the protected cleartext is well-formed
  chain,     \* progress along a sequence of calls on consecutive steps
  dummyOut,  \* the octets of the first write of this dummy packet, and how
             \* many writes it has served (counted up to 2)
  populated  \* whether a read or a generate has populated the packet

\* a key packet whose fingerprint and key ID are asked for
VARIABLES
  keyPkt,    \* the key packet object
  keyLast    \* the last operation on it, its arguments and outcome

\* a one-pass signature packet and the trailing signature bound to it
VARIABLES
  ops,       \* the OnePassSignaturePacket object
  opsSig,    \* what correspondingSig resolves to: None or Some packet
  opsLast    \* the last operation, its arguments and outcome

\* a PacketList reading an input stream
VARIABLES
  pipe,      \* the pipeline: input tokens, tokenizer position, output stream
  list,      \* the PacketList object: its array and its stream field
  caller     \* progress of the call of read and of its caller afterwards

\* a PacketList writing a packet whose body is a stream
VARIABLES
  framer     \* the body stream, the transform's buffer and what it has emitted

\* a call of the ECDSA binding
VARIABLES
  ecdsa      \* the arguments, the tier functions invoked and the outcome

\* a PacketList that is searched and extended
VARIABLES
  query      \* the list's array, the last operation and what it returned

\* a key packet object on which read is called directly
VARIABLES
  reader     \* the object, the object as it was when the last operation was
             \* called, that operation and the error it raised

secretVars == <<pkt, wire, prev, last, prot, chain, dummyOut, populated>>
keyVars == <<keyPkt, keyLast>>
opsVars == <<ops, opsSig, opsLast>>
listVars == <<pipe, list, caller>>
laterVars == <<framer, ecdsa, query, reader>>
vars == <<secretVars, keyVars, opsVars, listVars, laterVars>>

\* the values of the variables of an object that is not in use
KeyOutcome(op, err, ret, src, bytes, pos) ==
  [op |-> op, err |-> err, ret |-> ret, src |-> src, bytes |-> bytes, pos |-> pos]

OpsOutcome(op, err, input, bytes, called, sigBefore) ==
  [op |-> op, err |-> err, input |-> input, bytes |-> bytes, called |-> called,
   sigBefore |-> sigBefore]

NoPipe == [input |-> <<>>, tolerant |-> FALSE, pos |-> 0, queue |-> <<>>,
           state |-> "open", cause |-> "none", inputErr |-> "none"]
NewPacketList == [arr |-> <<>>, stream |-> "null"]
NoCaller == [pc |-> "idle", delivered |-> <<>>, ended |-> "no", unread |-> {}]

NoFramer == [source |-> <<>>, fed |-> 0, buffer |-> <<>>, bufferLength |-> 0,
             out |-> <<>>, steps |-> <<>>, pc |-> "idle"]
NoEcdsa == [op |-> "none"]
NoQuery == [arr |-> <<>>, op |-> "none"]
NoReader == [target |-> NewPacket(4), before |-> NewPacket(4), op |-> "none",
             err |-> "none"]

FramerUnused == framer = NoFramer
EcdsaUnused == ecdsa = NoEcdsa
QueryUnused == query = NoQuery
ReaderUnused == reader = NoReader

KeyUnused ==
  /\ keyPkt = NewPacket(4)
  /\ keyLast = KeyOutcome("new", "none", None, None, <<>>, 0)

OpsUnused ==
  /\ ops = NewOnePass
  /\ opsSig = None
  /\ opsLast = OpsOutcome("new", "none", None, <<>>, FALSE, None)

ListUnused ==
  /\ pipe = NoPipe
  /\ list = NewPacketList
  /\ caller = NoCaller

SecretUnused ==
  /\ pkt = NewPacket(4)
  /\ wire = None
  /\ prev = NewPacket(4)
  /\ last = [op |-> "new", pass |-> 0, err |-> "none", ret |-> "none",
             cleartext |-> None, buffers |-> <<>>, protPass |-> -1]
  /\ prot = [pass |-> -1, ok |-> FALSE]
  /\ chain = [stage |-> "none", params |-> None, pass |-> 0, ok |-> FALSE]
  /\ dummyOut = [bytes |-> <<>>, writes |-> 0]
  /\ populated = FALSE

NoProt == [pass |-> -1, ok |-> FALSE]
NoChain == [stage |-> "none", params |-> None, pass |-> 0, ok |-> FALSE]
NoDummyOut == [bytes |-> <<>>, writes |-> 0]

Outcome(op, pass, err, ret, cleartext, buffers) ==
  [op |-> op, pass |-> pass, err |-> err, ret |-> ret, cleartext |-> cleartext,
   buffers |-> buffers, protPass |-> prot.pass]

Init ==
  /\ pkt \in {NewPacket(v) : v \in Versions}
  /\ wire = None
  /\ prev = pkt
  /\ last = [op |-> "new", pass |-> 0, err |-> "none", ret |-> "none",
             cleartext |-> None, buffers |-> <<>>, protPass |-> -1]
  /\ prot = NoProt
  /\ chain = NoChain
  /\ dummyOut = NoDummyOut
  /\ populated = FALSE
  /\ KeyUnused /\ OpsUnused /\ ListUnused
  /\ FramerUnused /\ EcdsaUnused /\ QueryUnused /\ ReaderUnused

\* new SecretKeyPacket(date, config), config.v5Keys selecting the version
Construct(v) ==
  /\ pkt' = NewPacket(v)
  /\ prev' = NewPacket(v)
  /\ last' = [Outcome("new", 0, "none", "none", None, <<>>) EXCEPT !.protPass = -1]
  /\ wire' = None
  /\ prot' = NoProt
  /\ chain' = NoChain
  /\ dummyOut' = NoDummyOut
  /\ populated' = FALSE
  /\ UNCHANGED <<keyVars, opsVars, listVars, laterVars>>

\* generate on a packet that holds no secret yet (key generation)
Generate(d) ==
  /\ ~populated /\ ~isDummy(pkt)
  /\ pkt' = generate(pkt, d)
  /\ prev' = pkt
  /\ last' = Outcome("generate", 0, "none", "none", None, <<>>)
  /\ wire' = None
  /\ prot' = NoProt
  /\ chain' = NoChain
  /\ populated' = TRUE
  /\ UNCHANGED dummyOut
  /\ UNCHANGED <<keyVars, opsVars, listVars, laterVars>>

\* A packet list reads each body into a new packet object and drops the
\* object when read throws.  r: what read returned for the new object.
ReadInto(r, newProt, newChain) ==
  /\ last' = Outcome("read", 0, r.err, "none", None, <<>>)
  /\ wire' = None
  /\ chain' = newChain
  /\ IF r.err = "none"
       THEN /\ pkt' = r.pkt
            /\ prev' = NewPacket(4)
            /\ prot' = IF isDummy(r.pkt) THEN NoProt ELSE newProt
            /\ dummyOut' = NoDummyOut
            /\ populated' = TRUE
       ELSE UNCHANGED <<pkt, prev, prot, dummyOut, populated>>
  /\ UNCHANGED <<keyVars, opsVars, listVars, laterVars>>

\* read of the octets write has just returned
ReadWire(view) ==
  /\ IsSome(wire)
  /\ ReadInto(read(NewPacket(4), Get(wire).bytes, view), Get(wire).prot,
              IF chain.stage = "written"
                THEN [chain EXCEPT !.stage = "read"] ELSE NoChain)

\* read of a body written by another implementation
\* the body is remembered for as long as the packet read from it is not
\* changed by anything but write
ReadForeignDone(r, body, usage, good) ==
  ReadInto(r,
           IF usage \in {USAGE_AEAD, USAGE_CFB}
             THEN [pass |-> 1, ok |-> good] ELSE NoProt,
           IF r.err = "none"
             THEN [stage |-> "foreign", params |-> Some(body), pass |-> usage,
                   ok |-> good]
             ELSE NoChain)

ReadForeignBody(body, usage, good, view) ==
  ReadForeignDone(read(NewPacket(4), body, view), body, usage, good)

ReadForeign(v, usage, good, sumOk, view) ==
  /\ last.op = "new"
  /\ usage # 0 => sumOk
  /\ ReadForeignBody(foreignBody(v, usage,
                                 IF good THEN GoodCleartext ELSE BadCleartext,
                                 sumOk),
                     usage, good, view)

\* w: what write returned
WriteDone(w) ==
  /\ pkt' = w.pkt
  /\ prev' = pkt
  /\ last' = Outcome("write", 0, w.err, "none", None, <<>>)
  /\ wire' = IF w.err = "none"
               THEN Some([bytes |-> w.bytes,
                          prot |-> IF pkt.s2kUsage \in {USAGE_AEAD, USAGE_CFB}
                                     THEN prot ELSE NoProt])
               ELSE None
  /\ chain' = IF chain.stage = "encrypted"
                THEN [chain EXCEPT !.stage = "written"]
              ELSE IF chain.stage = "stripped"
                THEN [chain EXCEPT !.stage = "strippedWritten"]
              ELSE IF chain.stage = "foreign"
                THEN [chain EXCEPT !.stage = "foreignWritten"]
              ELSE NoChain
  /\ dummyOut' = IF w.err = "none" /\ isDummy(pkt)
                   THEN IF dummyOut.writes = 0
                          THEN [bytes |-> w.bytes, writes |-> 1]
                          ELSE [dummyOut EXCEPT !.writes = 2]
                   ELSE dummyOut
  /\ UNCHANGED <<prot, populated>>
  /\ UNCHANGED <<keyVars, opsVars, listVars, laterVars>>

Write == WriteDone(write(pkt))

\* e: what encrypt returned; done: it protected or stripped the packet
EncryptDone(e, done, passphrase) ==
  /\ pkt' = e.pkt
  /\ prev' = pkt
  /\ last' = Outcome("encrypt", passphrase, e.err, "none", None, <<>>)
  /\ wire' = None
  /\ prot' = IF done /\ passphrase # 0 THEN [pass |-> passphrase, ok |-> TRUE]
             ELSE IF done THEN NoProt
             ELSE prot
  /\ chain' = IF done /\ passphrase # 0
                THEN [stage |-> IF chain.stage = "encrypted"
                                  THEN "encryptedAgain" ELSE "encrypted",
                      params |-> pkt.privateParams, pass |-> passphrase,
                      ok |-> TRUE]
              ELSE IF passphrase = 0 /\ isDecrypted(pkt) /\ ~isDummy(pkt)
                THEN [stage |-> "stripped", params |-> pkt.privateParams,
                      pass |-> 0, ok |-> TRUE]
              ELSE NoChain
  /\ UNCHANGED <<dummyOut, populated>>
  /\ UNCHANGED <<keyVars, opsVars, listVars, laterVars>>

EncryptStep(e, passphrase) ==
  EncryptDone(e, e.err = "none" /\ ~isDummy(pkt), passphrase)

Encrypt(passphrase, aeadProtect, seed) ==
  /\ passphrase = 0 => (~aeadProtect /\ seed = 0)
  /\ EncryptStep(encrypt(pkt, passphrase, aeadProtect, seed, seed), passphrase)

\* r: what decrypt returned; protected: the packet held material protected
\* under a passphrase when decrypt was called
DecryptDone(r, protected, passphrase) ==
  /\ pkt' = r.pkt
  /\ prev' = pkt
  /\ last' = Outcome("decrypt", passphrase, r.err, r.ret, r.cleartext, <<>>)
  /\ wire' = None
  /\ prot' = IF r.err = "none" /\ ~isDummy(pkt) THEN NoProt ELSE prot
  /\ chain' = IF chain.stage = "read" /\ passphrase = chain.pass
                THEN [chain EXCEPT !.stage = "decrypted"]
              ELSE IF chain.stage = "encrypted" /\ passphrase = chain.pass
                THEN [chain EXCEPT !.stage = "decryptedSame"]
              ELSE IF protected /\ passphrase # prot.pass /\ r.err # "none"
                THEN [stage |-> "wrongPass", params |-> None, pass |-> prot.pass,
                      ok |-> prot.ok]
              ELSE IF chain.stage = "wrongPass" /\ passphrase = chain.pass
                THEN [chain EXCEPT !.stage = "rightAfterWrong"]
              ELSE NoChain
  /\ UNCHANGED <<dummyOut, populated>>
  /\ UNCHANGED <<keyVars, opsVars, listVars, laterVars>>

Decrypt(passphrase) ==
  DecryptDone(decrypt(pkt, passphrase),
              /\ ~isDummy(pkt) /\ pkt.isEncrypted = "true"
              /\ pkt.s2kUsage \in {USAGE_AEAD, USAGE_CFB} /\ prot.pass > 0,
              passphrase)

\* r: what validate returned
ValidateDone(r) ==
  /\ pkt' = r.pkt
  /\ prev' = pkt
  /\ last' = Outcome("validate", 0, r.err, "none", None, <<>>)
  /\ wire' = None
  /\ chain' = NoChain
  /\ UNCHANGED <<prot, dummyOut, populated>>
  /\ UNCHANGED <<keyVars, opsVars, listVars, laterVars>>

Validate == ValidateDone(validate(pkt))

\* r: what clearPrivateParams returned
ClearPrivateParamsDone(r) ==
  /\ pkt' = r.pkt
  /\ prev' = pkt
  /\ last' = Outcome("clearPrivateParams", 0, r.err, "none", None, r.buffers)
  /\ wire' = None
  /\ chain' = NoChain
  /\ UNCHANGED <<prot, dummyOut, populated>>
  /\ UNCHANGED <<keyVars, opsVars, listVars, laterVars>>

ClearPrivateParams == ClearPrivateParamsDone(clearPrivateParams(pkt))

\* r: what makeDummy returned
MakeDummyDone(r) ==
  /\ pkt' = r.pkt
  /\ prev' = pkt
  /\ last' = Outcome("makeDummy", 0, r.err, "none", None, <<>>)
  /\ wire' = None
  /\ prot' = IF r.err = "none" THEN NoProt ELSE prot
  /\ chain' = NoChain
  /\ UNCHANGED <<dummyOut, populated>>
  /\ UNCHANGED <<keyVars, opsVars, listVars, laterVars>>

MakeDummy == MakeDummyDone(makeDummy(pkt))

Next ==
  \/ \E v \in Versions : Construct(v)
  \/ \E d \in Scalars : Generate(d)
  \/ \E view \in BOOLEAN : ReadWire(view)
  \/ \E v \in Versions, usage \in ForeignUsages,
        good \in BOOLEAN, sumOk \in BOOLEAN, view \in BOOLEAN :
       ReadForeign(v, usage, good, sumOk, view)
  \/ Write
  \/ \E passphrase \in Passphrases, aeadProtect \in BOOLEAN, seed \in Seeds :
       Encrypt(passphrase, aeadProtect, seed)
  \/ \E passphrase \in Passphrases : Decrypt(passphrase)
  \/ Validate
  \/ ClearPrivateParams
  \/ MakeDummy

Spec == Init /\ [][Next]_vars

\* ------------------------------------------- a key packet and its fingerprint
\* creation dates a key packet is constructed with or assigned
Dates == {[seconds |-> CREATED + k, millis |-> 0] : k \in 0..(NumDates - 1)}

\* the body PublicKeyPacket.read parses for version v, date t and scalar d
KeyBody(v, t, d) ==
  writePublicKey(generate([NewPacket(v) EXCEPT !.created = t], d)).bytes

\* bodies read into the packet: well-formed ones, and one of version 3
KeyBodies ==
  {KeyBody(v, t, d) : v \in Versions, t \in Dates, d \in Scalars}
  \cup {<<3>> \o Tail(KeyBody(4, [seconds |-> CREATED, millis |-> 0], <<1>>))}

InitKey ==
  /\ keyPkt \in {NewPacket(v) : v \in Versions}
  /\ keyLast = KeyOutcome("new", "none", None, None, <<>>, 0)
  /\ SecretUnused /\ OpsUnused /\ ListUnused
  /\ FramerUnused /\ EcdsaUnused /\ QueryUnused /\ ReaderUnused

\* new PublicKeyPacket(date, config)
KeyConstruct(v, t) ==
  /\ keyPkt' = [NewPacket(v) EXCEPT !.created = normalizeDate(t)]
  /\ keyLast' = KeyOutcome("new", "none", None, None, <<>>, 0)
  /\ UNCHANGED <<secretVars, opsVars, listVars, laterVars>>

\* generate: the algorithm and fresh parameters replace the former ones
KeyGenerate(d) ==
  /\ keyPkt' = generate(keyPkt, d)
  /\ keyLast' = KeyOutcome("generate", "none", None, None, <<>>, 0)
  /\ UNCHANGED <<secretVars, opsVars, listVars, laterVars>>

\* packet.created = t, a direct assignment by the code that builds a key
KeyAssignCreated(t) ==
  /\ t # keyPkt.created
  /\ keyPkt' = [keyPkt EXCEPT !.created = t]
  /\ keyLast' = KeyOutcome("assign", "none", None, None, <<>>, 0)
  /\ UNCHANGED <<secretVars, opsVars, listVars, laterVars>>

\* r: what read returned, having read bytes into this packet object
KeyReadDone(r, bytes) ==
  /\ keyPkt' = r.pkt
  /\ keyLast' = KeyOutcome("read", r.err, None, None, <<>>, r.pos)
  /\ UNCHANGED <<secretVars, opsVars, listVars, laterVars>>

KeyRead(bytes) == KeyReadDone(readPublicKey(keyPkt, bytes), bytes)

\* w: what write returned
KeyWriteDone(w) ==
  /\ keyLast' = KeyOutcome("write", w.err, None, Some(keyPkt), w.bytes, 0)
  /\ UNCHANGED <<keyPkt, secretVars, opsVars, listVars, laterVars>>

KeyWrite == KeyWriteDone(writePublicKey(keyPkt))

\* r: what read returned for a new packet object given the octets that
\* write has just returned (keyLast.src holds the packet that was written)
KeyReadWireDone(r) ==
  /\ keyPkt' = r.pkt
  /\ keyLast' = KeyOutcome("readWire", r.err, None, keyLast.src, keyLast.bytes, r.pos)
  /\ UNCHANGED <<secretVars, opsVars, listVars, laterVars>>

KeyReadWire ==
  /\ keyLast.op = "write" /\ keyLast.err = "none"
  /\ KeyReadWireDone(readPublicKey(NewPacket(4), keyLast.bytes))

\* f: what getFingerprintBytes returned
GetFingerprintBytesDone(f) ==
  /\ keyPkt' = f.pkt
  /\ keyLast' = KeyOutcome("getFingerprintBytes", f.err, f.ret, None, <<>>, 0)
  /\ UNCHANGED <<secretVars, opsVars, listVars, laterVars>>

GetFingerprintBytes == GetFingerprintBytesDone(getFingerprintBytes(keyPkt))

\* k: what getKeyID returned
GetKeyIDDone(k) ==
  /\ keyPkt' = k.pkt
  /\ keyLast' = KeyOutcome("getKeyID", k.err, k.ret, None, <<>>, 0)
  /\ UNCHANGED <<secretVars, opsVars, listVars, laterVars>>

GetKeyID == GetKeyIDDone(getKeyID(keyPkt))

NextKey ==
  \/ \E v \in Versions, t \in Dates : KeyConstruct(v, t)
  \/ \E d \in Scalars : KeyGenerate(d)
  \/ \E t \in Dates : KeyAssignCreated(t)
  \/ \E bytes \in KeyBodies : KeyRead(bytes)
  \/ KeyWrite
  \/ KeyReadWire
  \/ GetFingerprintBytes
  \/ GetKeyID

SpecKey == InitKey /\ [][NextKey]_vars

\* ------------------------------- a one-pass signature and its trailing packet
KeyIDs == {[i \in 1..KEYID_LEN |-> k] : k \in 1..NumKeyIDs}

\* thirteen-octet bodies: version 3 or another, a known or unknown hash code
OnePassBodies ==
  {<<v, t, h, ALGO_ECDSA>> \o id \o <<1>> :
     v \in {OPS_VERSION, 4}, t \in SignatureCodes, h \in {HASH_SHA256, 100},
     id \in KeyIDs}

\* the packets correspondingSig can resolve to: Signature packets as parsed
\* from the wire, and a packet of another type
TrailingPackets ==
  {[tag |-> "signature", signatureType |-> t, hashAlgorithm |-> h,
    publicKeyAlgorithm |-> a, issuerKeyID |-> id, hashed |-> None] :
     t \in SignatureCodes, h \in HashCodes, a \in PublicKeyCodes, id \in KeyIDs}
  \cup {[tag |-> "literalData", signatureType |-> 0, hashAlgorithm |-> HASH_SHA256,
         publicKeyAlgorithm |-> ALGO_ECDSA, issuerKeyID |-> [i \in 1..KEYID_LEN |-> 1],
         hashed |-> None]}

InitOps ==
  /\ OpsUnused
  /\ SecretUnused /\ KeyUnused /\ ListUnused
  /\ FramerUnused /\ EcdsaUnused /\ QueryUnused /\ ReaderUnused

\* r: what read returned for the body bytes
OnePassReadDone(r, bytes) ==
  /\ ops' = r.pkt
  /\ opsLast' = OpsOutcome("read", r.err, Some(bytes), <<>>, FALSE, None)
  /\ UNCHANGED <<opsSig, secretVars, keyVars, listVars, laterVars>>

OnePassRead(bytes) == OnePassReadDone(onePassRead(ops, bytes), bytes)

\* w: what write returned; input: the body this packet has just been read from
OnePassWriteDone(w, input) ==
  /\ opsLast' = OpsOutcome("write", w.err, input, w.bytes, FALSE, None)
  /\ UNCHANGED <<ops, opsSig, secretVars, keyVars, listVars, laterVars>>

OnePassWrite ==
  OnePassWriteDone(onePassWrite(ops),
                   IF opsLast.op = "read" THEN opsLast.input ELSE None)

\* hash(...): the packet accumulates the hashed value of the signed data
OnePassHash(digest) ==
  /\ ops.hashed # Some(digest)
  /\ ops' = [ops EXCEPT !.hashed = Some(digest)]
  /\ opsLast' = OpsOutcome("hash", "none", None, <<>>, FALSE, None)
  /\ UNCHANGED <<opsSig, secretVars, keyVars, listVars, laterVars>>

\* packet.correspondingSig = ...: the message binds what follows the data
BindTrailing(sig) ==
  /\ opsSig # sig
  /\ opsSig' = sig
  /\ opsLast' = OpsOutcome("bind", "none", None, <<>>, FALSE, None)
  /\ UNCHANGED <<ops, secretVars, keyVars, listVars, laterVars>>

\* r: what verify did
OnePassVerifyDone(r) ==
  /\ opsSig' = r.sig
  /\ opsLast' = OpsOutcome("verify", r.err, None, <<>>, r.called, opsSig)
  /\ UNCHANGED <<ops, secretVars, keyVars, listVars, laterVars>>

OnePassVerify == OnePassVerifyDone(onePassVerify(ops, opsSig))

NextOps ==
  \/ \E bytes \in OnePassBodies : OnePassRead(bytes)
  \/ OnePassWrite
  \/ \E digest \in 1..NumDigests : OnePassHash(digest)
  \/ \E sig \in {None} \cup {Some(x) : x \in TrailingPackets} : BindTrailing(sig)
  \/ OnePassVerify

SpecOps == InitOps /\ [][NextOps]_vars

\* ------------------------------------------ a PacketList reading a stream
\* what the tokenizer yields for one framed packet: its tag, whether the tag
\* is in allowedPackets, and whether the packet's read accepts the body
Tokens ==
  {t \in [tag : {"publicKey", "literalData"}, ok : BOOLEAN, allowed : BOOLEAN] :
     t.ok => t.allowed}

\* causes an input stream can be cancelled or errored with
Causes == {"Cancelled", "SourceError"}

\* input streams of at most MaxPackets packets
Inputs ==
  UNION {[1..n -> Tokens] : n \in 0..MaxPackets}

InitList ==
  /\ ListUnused
  /\ SecretUnused /\ KeyUnused /\ OpsUnused
  /\ FramerUnused /\ EcdsaUnused /\ QueryUnused /\ ReaderUnused

\* read(bytes, allowedPackets, config): the pipeline is launched and the
\* drain loop starts
ListRead(input, tolerant) ==
  /\ caller.pc = "idle"
  /\ pipe' = [input |-> input, tolerant |-> tolerant, pos |-> 0, queue |-> <<>>,
              state |-> "open", cause |-> "none", inputErr |-> "none"]
  /\ list' = [arr |-> <<>>, stream |-> "set"]
  /\ caller' = [caller EXCEPT !.pc = "reading"]
  /\ UNCHANGED <<secretVars, keyVars, opsVars, laterVars>>

\* the input stream is cancelled or errors with cause e before it is done
InputFail(e) ==
  /\ caller.pc # "idle" /\ pipe.state = "open" /\ pipe.inputErr = "none"
  /\ pipe' = [pipe EXCEPT !.inputErr = e]
  /\ UNCHANGED <<list, caller, secretVars, keyVars, opsVars, laterVars>>

\* the pipeline meets the error of the input stream
AbortOnInput ==
  /\ caller.pc # "idle" /\ pipe.state = "open" /\ pipe.queue = <<>>
  /\ pipe.inputErr # "none"
  /\ pipe' = onPipelineError(pipe, pipe.inputErr)
  /\ UNCHANGED <<list, caller, secretVars, keyVars, opsVars, laterVars>>

\* the pipeline parses the next packet and writes it to the output stream;
\* the writer is ready once the packet written before has been taken
ParsePacket ==
  /\ caller.pc # "idle" /\ pipe.state = "open" /\ pipe.queue = <<>>
  /\ pipe.inputErr = "none"
  /\ pipe.pos < Len(pipe.input)
  /\ pipe.input[pipe.pos + 1].ok
  /\ pipe' = [pipe EXCEPT !.pos = @ + 1,
                          !.queue = <<PacketAt(pipe.input, pipe.pos + 1)>>]
  /\ caller' = [caller EXCEPT !.unread =
                  IF supportsStreaming(pipe.input[pipe.pos + 1].tag)
                    THEN @ \cup {pipe.pos + 1} ELSE @]
  /\ UNCHANGED <<list, secretVars, keyVars, opsVars, laterVars>>

\* the packet's read throws: the error is logged and the packet skipped
SkipPacket ==
  /\ caller.pc # "idle" /\ pipe.state = "open" /\ pipe.queue = <<>>
  /\ pipe.inputErr = "none"
  /\ pipe.pos < Len(pipe.input)
  /\ ~pipe.input[pipe.pos + 1].ok
  /\ ~abortsOnError(pipe.tolerant, pipe.input[pipe.pos + 1].tag)
  /\ pipe' = [pipe EXCEPT !.pos = @ + 1]
  /\ UNCHANGED <<list, caller, secretVars, keyVars, opsVars, laterVars>>

\* the packet's read throws: the output stream is aborted
AbortList ==
  /\ caller.pc # "idle" /\ pipe.state = "open" /\ pipe.queue = <<>>
  /\ pipe.inputErr = "none"
  /\ pipe.pos < Len(pipe.input)
  /\ ~pipe.input[pipe.pos + 1].ok
  /\ abortsOnError(pipe.tolerant, pipe.input[pipe.pos + 1].tag)
  /\ pipe' = abortOutput([pipe EXCEPT !.pos = @ + 1],
                         parseError(pipe.input[pipe.pos + 1]))
  /\ UNCHANGED <<list, caller, secretVars, keyVars, opsVars, laterVars>>

\* the input is exhausted: the output stream is closed
CloseList ==
  /\ caller.pc # "idle" /\ pipe.state = "open" /\ pipe.queue = <<>>
  /\ pipe.inputErr = "none"
  /\ pipe.pos = Len(pipe.input)
  /\ pipe' = [pipe EXCEPT !.state = "closed"]
  /\ UNCHANGED <<list, caller, secretVars, keyVars, opsVars, laterVars>>

\* the drain loop of read is given a packet
DrainPacket ==
  /\ caller.pc = "reading" /\ pipe.queue # <<>>
  /\ list' = [list EXCEPT !.arr = push(@, Some(Head(pipe.queue)))]
  /\ pipe' = [pipe EXCEPT !.queue = Tail(@)]
  /\ caller' = [caller EXCEPT !.pc =
                  IF readStops(FALSE, Some(Head(pipe.queue)))
                    THEN "returned" ELSE "reading"]
  /\ UNCHANGED <<secretVars, keyVars, opsVars, laterVars>>

\* the drain loop of read is told that the stream is done
DrainDone ==
  /\ caller.pc = "reading" /\ pipe.queue = <<>> /\ pipe.state = "closed"
  /\ readStops(TRUE, None)
  /\ list' = [list EXCEPT !.stream = "null"]
  /\ caller' = [caller EXCEPT !.pc = "returned"]
  /\ UNCHANGED <<pipe, secretVars, keyVars, opsVars, laterVars>>

\* the drain loop of read meets the abort: read throws
DrainFail ==
  /\ caller.pc = "reading" /\ pipe.state = "errored"
  /\ caller' = [caller EXCEPT !.pc = "failed"]
  /\ UNCHANGED <<pipe, list, secretVars, keyVars, opsVars, laterVars>>

\* after read has returned, its caller reads the next packet from list.stream
CallerTake ==
  /\ caller.pc = "returned" /\ list.stream = "set" /\ caller.ended = "no"
  /\ pipe.queue # <<>>
  /\ caller' = [caller EXCEPT !.delivered = Append(@, Head(pipe.queue))]
  /\ pipe' = [pipe EXCEPT !.queue = Tail(@)]
  /\ UNCHANGED <<list, secretVars, keyVars, opsVars, laterVars>>

\* the caller finds list.stream done, or aborted
CallerEnd ==
  /\ caller.pc = "returned" /\ list.stream = "set" /\ caller.ended = "no"
  /\ pipe.queue = <<>> /\ pipe.state # "open"
  /\ caller' = [caller EXCEPT !.ended =
                  IF pipe.state = "closed" THEN "done" ELSE "error"]
  /\ UNCHANGED <<pipe, list, secretVars, keyVars, opsVars, laterVars>>

\* the body of a streaming-capable packet that was handed out is drained
DrainBody(i) ==
  /\ i \in caller.unread
  /\ \E k \in 1..Len(list.arr \o caller.delivered) :
       (list.arr \o caller.delivered)[k].index = i
  /\ caller' = [caller EXCEPT !.unread = @ \ {i}]
  /\ UNCHANGED <<pipe, list, secretVars, keyVars, opsVars, laterVars>>

NextList ==
  \/ \E input \in Inputs, tolerant \in BOOLEAN : ListRead(input, tolerant)
  \/ \E e \in Causes : InputFail(e)
  \/ AbortOnInput
  \/ ParsePacket
  \/ SkipPacket
  \/ AbortList
  \/ CloseList
  \/ DrainPacket
  \/ DrainDone
  \/ DrainFail
  \/ CallerTake
  \/ CallerEnd
  \/ \E i \in 1..MaxPackets : DrainBody(i)

SpecList == InitList /\ [][NextList]_vars

\* ------------------------------ a PacketList writing a streamed packet body
\* the octet at position k of the body stream
BodyOctet(k) == (7 * k + 3) % 256

\* the octets of the body stream at positions from + 1 .. from + n
BodyChunk(from, n) == [j \in 1..n |-> BodyOctet(from + j)]

\* lengths of the chunks a body stream delivers
ChunkSizes == {0, 1, 511, 512, 1100}

\* body streams of at most MaxChunks chunks
BodyStreams == UNION {[1..n -> ChunkSizes] : n \in 0..MaxChunks}

\* util.concat of an array of Uint8Arrays
concatArrays(arrs) ==
  LET acc[i \in 0..Len(arrs)] ==
        IF i = 0 THEN <<>> ELSE acc[i - 1] \o arrs[i]
  IN  acc[Len(arrs)]

\* writeTag: the new-format tag octet
writeTag(tag) == <<192 + tag>>

\* writePartialLength(power): one octet announcing 2^power octets
writePartialLength(power) == <<PARTIAL_BASE + power>>

\* writeSimpleLength(length): the one-, two- or five-octet length header
writeSimpleLength(length) ==
  IF length < 192 THEN <<length>>
  ELSE IF length < 8384
    THEN <<((length - 192) \div 256) + 192, (length - 192) % 256>>
  ELSE <<255>> \o writeNumber(length, 4)

\* Math.log(n) / Math.LN2 | 0 for n >= 1
Log2Floor(n) == Cardinality({p \in 1..maxPower : 2 ^ p <= n})

\* a transform that always announces chunks of 512 octets
chunkPower_fixed(bufferLength) == 9

\* Math.min(Math.log(bufferLength) / Math.LN2 | 0, 30)
chunkPower(bufferLength) ==
  IF Log2Floor(bufferLength) < maxPower THEN Log2Floor(bufferLength) ELSE maxPower

\* a transform that retains nothing of the buffer after a chunk
retained_none(bufferConcat, chunkSize) == <<>>

\* bufferConcat.subarray(1 + chunkSize): what stays buffered after a chunk
retained(bufferConcat, chunkSize) ==
  SubSeq(bufferConcat, 2 + chunkSize, Len(bufferConcat))

\* the transform returns the header and chunkSize octets and keeps the rest
emitPartial(f, bufferConcat, powerOf2, chunkSize, buffered) ==
  [f EXCEPT !.buffer = <<retained(bufferConcat, chunkSize)>>,
            !.bufferLength = Len(retained(bufferConcat, chunkSize)),
            !.out = Append(@, SubSeq(bufferConcat, 1, 1 + chunkSize)),
            !.steps = Append(@, [kind |-> "partial", buffered |-> buffered,
                                 size |-> chunkSize])]

\* the transform once the buffer holds at least minLength octets
emitChunk(f, buffer, bufferLength, powerOf2) ==
  emitPartial(f, concatArrays(<<writePartialLength(powerOf2)>> \o buffer),
              powerOf2, 2 ^ powerOf2, bufferLength)

\* the transform after buffer.push(value) and bufferLength += value.length
transformBuffered(f, buffer, bufferLength) ==
  IF bufferLength >= minLength
    THEN emitChunk(f, buffer, bufferLength, chunkPower(bufferLength))
    ELSE [f EXCEPT !.buffer = buffer, !.bufferLength = bufferLength]

\* the transform callback of a streamed write, called with one chunk
transformValue(f, value) ==
  transformBuffered(f, Append(f.buffer, value), f.bufferLength + Len(value))

\* the flush callback of a streamed write
transformFlush(f) ==
  [f EXCEPT !.out = Append(@, concatArrays(<<writeSimpleLength(f.bufferLength)>>
                                            \o f.buffer)),
            !.steps = Append(@, [kind |-> "simple", buffered |-> f.bufferLength,
                                 size |-> f.bufferLength])]

InitFramer ==
  /\ FramerUnused
  /\ SecretUnused /\ KeyUnused /\ OpsUnused /\ ListUnused
  /\ EcdsaUnused /\ QueryUnused /\ ReaderUnused

\* write() of a list holding one streaming-capable packet whose write returns
\* a stream: the tag octet is emitted and the transform is set up
WriteStreamed(sizes) ==
  /\ framer.pc = "idle"
  /\ framer' = [source |-> sizes, fed |-> 0, buffer |-> <<>>, bufferLength |-> 0,
                out |-> <<writeTag(LITERAL_DATA)>>, steps |-> <<>>,
                pc |-> "streaming"]
  /\ UNCHANGED <<secretVars, keyVars, opsVars, listVars, ecdsa, query, reader>>

\* the body stream delivers its next chunk
TransformChunk ==
  /\ framer.pc = "streaming" /\ framer.source # <<>>
  /\ framer' = transformValue(
                 [framer EXCEPT !.source = Tail(@), !.fed = @ + Head(framer.source)],
                 BodyChunk(framer.fed, Head(framer.source)))
  /\ UNCHANGED <<secretVars, keyVars, opsVars, listVars, ecdsa, query, reader>>

\* the body stream ends
FlushBody ==
  /\ framer.pc = "streaming" /\ framer.source = <<>>
  /\ framer' = transformFlush([framer EXCEPT !.pc = "done"])
  /\ UNCHANGED <<secretVars, keyVars, opsVars, listVars, ecdsa, query, reader>>

NextFramer ==
  \/ \E sizes \in BodyStreams : WriteStreamed(sizes)
  \/ TransformChunk
  \/ FlushBody

SpecWrite == InitFramer /\ [][NextFramer]_vars

\* ------------------------------------------------------- the ECDSA binding
\* new Curve(oid): the curve's name, the tier it is bound to on this platform
\* ("none": neither Web Crypto nor Node offers it) and its key type
Curves ==
  [name : {"p256", "p521"}, type : {"web", "node", "none"}, keyType : {"ecdsa"}]
    \cup {[name |-> "ed25519", type |-> "ed25519", keyType |-> "eddsa"],
          [name |-> "curve25519", type |-> "curve25519", keyType |-> "ecdh"]}

\* the message argument: a Uint8Array, a stream, or undefined
MessageKinds == {"bytes", "stream", "absent"}

\* names of the errors a platform function can throw
PlatformErrors == {"DataError", "OperationError", "NotSupportedError"}

\* what the collaborators do when they are called: the platform's sign and
\* verify, whether an error of the Node verify is thrown by verify.verify
\* itself, the software tier's sign and verify, and validateStandardParams
Envs ==
  [platSign : {"ok"} \cup PlatformErrors,
   platVerify : {"true", "false"} \cup PlatformErrors,
   inVerifyCall : BOOLEAN,
   softSign : {"ok", "Error"},
   softVerify : {"true", "false", "Error"},
   standard : {"true", "false"}]

\* the outcome of a call: the tier functions invoked in order, the error
\* thrown, the value returned and the digest handed to the software tier
EcdsaResult(calls, err, ret, digest) ==
  [calls |-> calls, err |-> err, ret |-> ret, digest |-> digest]

\* the catch of the web tier: a key-integrity error of a curve other than
\* p521 is thrown again
rethrows(curve, name) ==
  curve.name # "p521" /\ name \in {"DataError", "OperationError"}

\* ellipticSign(curve, hashed, privateKey)
ellipticSign(calls, env) ==
  IF env.softSign = "ok"
    THEN EcdsaResult(Append(calls, "ellipticSign"), "none", "softwareSignature",
                     "hashed")
    ELSE EcdsaResult(Append(calls, "ellipticSign"), env.softSign, "none", "hashed")

\* sign, case 'web'
signWeb(curve, env) ==
  IF env.platSign = "ok"
    THEN EcdsaResult(<<"webSign">>, "none", "platformSignature", "none")
  ELSE IF rethrows(curve, env.platSign)
    THEN EcdsaResult(<<"webSign">>, env.platSign, "none", "none")
  ELSE ellipticSign(<<"webSign">>, env)

\* sign, case 'node'
signNode(curve, env) ==
  IF env.platSign = "ok"
    THEN EcdsaResult(<<"nodeSign">>, "none", "platformSignature", "none")
    ELSE EcdsaResult(<<"nodeSign">>, env.platSign, "none", "none")

\* sign that hands every message to the platform tier
sign_anyMessage(curve, message, env) ==
  IF curve.type = "web" THEN signWeb(curve, env)
  ELSE IF curve.type = "node" THEN signNode(curve, env)
  ELSE ellipticSign(<<>>, env)

\* sign(oid, hashAlgo, message, publicKey, privateKey, hashed)
sign(curve, message, env) ==
  IF message = "bytes" /\ curve.type = "web" THEN signWeb(curve, env)
  ELSE IF message = "bytes" /\ curve.type = "node" THEN signNode(curve, env)
  ELSE ellipticSign(<<>>, env)

\* ellipticVerify(curve, signature, digest, publicKey)
ellipticVerify(calls, digest, env) ==
  IF env.softVerify = "Error"
    THEN EcdsaResult(Append(calls, "ellipticVerify"), "Error", "none", digest)
    ELSE EcdsaResult(Append(calls, "ellipticVerify"), "none", env.softVerify,
                     digest)

\* verify, case 'web'
verifyWeb(curve, digest, env) ==
  IF env.platVerify \in {"true", "false"}
    THEN EcdsaResult(<<"webVerify">>, "none", env.platVerify, "none")
  ELSE IF rethrows(curve, env.platVerify)
    THEN EcdsaResult(<<"webVerify">>, env.platVerify, "none", "none")
  ELSE ellipticVerify(<<"webVerify">>, digest, env)

\* nodeVerify: an error thrown by verify.verify makes it return false, an
\* error thrown before that call leaves it
nodeVerify(env) ==
  IF env.platVerify \in {"true", "false"}
    THEN EcdsaResult(<<"nodeVerify">>, "none", env.platVerify, "none")
  ELSE IF env.inVerifyCall
    THEN EcdsaResult(<<"nodeVerify">>, "none", "false", "none")
  ELSE EcdsaResult(<<"nodeVerify">>, env.platVerify, "none", "none")

\* verify(oid, hashAlgo, signature, message, publicKey, hashed); hashAlgo:
\* whether the argument is defined
verify(curve, hashAlgo, message, env) ==
  IF message = "bytes" /\ curve.type = "web"
    THEN verifyWeb(curve, IF hashAlgo THEN "hashed" ELSE "message", env)
  ELSE IF message = "bytes" /\ curve.type = "node" THEN nodeVerify(env)
  ELSE ellipticVerify(<<>>, IF hashAlgo THEN "hashed" ELSE "message", env)

\* what validateParams returns with the outcomes of its two steps
Validated(ret, err, signStep, verifyStep) ==
  [calls |-> signStep.calls \o verifyStep.calls, err |-> err, ret |-> ret,
   digest |-> "none", signStep |-> signStep, verifyStep |-> verifyStep]

NoStep == EcdsaResult(<<>>, "none", "none", "none")

\* validateParams without the try block around its two steps
validateSteps_noCatch(signStep, verifyStep) ==
  IF signStep.err # "none"
    THEN Validated("none", signStep.err, signStep, NoStep)
  ELSE IF verifyStep.err # "none"
    THEN Validated("none", verifyStep.err, signStep, verifyStep)
  ELSE Validated(verifyStep.ret, "none", signStep, verifyStep)

\* validateParams, the try block: sign, then verify unless sign has thrown;
\* whatever is thrown makes it return false
validateSteps(signStep, verifyStep) ==
  IF signStep.err # "none" THEN Validated("false", "none", signStep, NoStep)
  ELSE IF verifyStep.err # "none"
    THEN Validated("false", "none", signStep, verifyStep)
  ELSE Validated(verifyStep.ret, "none", signStep, verifyStep)

\* validateParams(oid, Q, d)
validateParams(curve, env) ==
  IF curve.keyType # "ecdsa" THEN Validated("false", "none", NoStep, NoStep)
  ELSE IF curve.type \in {"web", "node"}
    THEN validateSteps(sign(curve, "bytes", env), verify(curve, TRUE, "bytes", env))
  ELSE [Validated(env.standard, "none", NoStep, NoStep)
          EXCEPT !.calls = <<"validateStandardParams">>]

InitEcdsa ==
  /\ EcdsaUnused
  /\ SecretUnused /\ KeyUnused /\ OpsUnused /\ ListUnused
  /\ FramerUnused /\ QueryUnused /\ ReaderUnused

\* r: what the call returned or threw
EcdsaDone(op, curve, hashAlgo, message, env, r) ==
  /\ ecdsa' = [op |-> op, curve |-> curve, hashAlgo |-> hashAlgo,
               message |-> message, env |-> env, r |-> r]
  /\ UNCHANGED <<secretVars, keyVars, opsVars, listVars, framer, query, reader>>

\* one call of sign, for any curve, message and behaviour of the tiers
EcdsaSign ==
  /\ ecdsa.op = "none"
  /\ \E curve \in Curves, message \in MessageKinds, env \in Envs :
       EcdsaDone("sign", curve, TRUE, message, env, sign(curve, message, env))

\* one call of verify
EcdsaVerify ==
  /\ ecdsa.op = "none"
  /\ \E curve \in Curves, hashAlgo \in BOOLEAN, message \in MessageKinds,
        env \in Envs :
       EcdsaDone("verify", curve, hashAlgo, message, env,
                 verify(curve, hashAlgo, message, env))

\* one call of validateParams
EcdsaValidateParams ==
  /\ ecdsa.op = "none"
  /\ \E curve \in Curves, env \in Envs :
       EcdsaDone("validateParams", curve, TRUE, "bytes", env,
                 validateParams(curve, env))

NextEcdsa ==
  \/ EcdsaSign
  \/ EcdsaVerify
  \/ EcdsaValidateParams

SpecEcdsa == InitEcdsa /\ [][NextEcdsa]_vars

\* ------------------------------------- a PacketList searched and extended
QueryTags == {"publicKey", "signature", "literalData"}

\* the packets a list is built from: the k-th has identity k
QueryInputs ==
  UNION {{[i \in 1..n |-> [index |-> i, tag |-> tags[i]]] : tags \in [1..n -> QueryTags]}
         : n \in 0..MaxPackets}

\* the argument of concat: undefined, or a list or array of at most two
\* elements, each a packet or a null entry
OtherElements(k) ==
  {None} \cup {Some([index |-> 100 + k, tag |-> t]) : t \in {"signature", "literalData"}}
Others ==
  {None} \cup {Some(<<>>)}
    \cup {Some(<<a>>) : a \in OtherElements(1)}
    \cup {Some(<<a, b>>) : a \in OtherElements(1), b \in OtherElements(2)}

\* push applied to each element of a sequence in turn
pushAll(arr, packets) ==
  LET acc[i \in 0..Len(packets)] ==
        IF i = 0 THEN arr ELSE push(acc[i - 1], packets[i])
  IN  acc[Len(packets)]

\* indexOfTag that stops at the first match
indexOfTag_first(arr, tags) ==
  IF \A i \in 1..Len(arr) : arr[i].tag \notin tags THEN <<>>
  ELSE <<(CHOOSE i \in 1..Len(arr) :
            /\ arr[i].tag \in tags
            /\ \A j \in 1..(i - 1) : arr[j].tag \notin tags) - 1>>

\* PacketList.indexOfTag(...args): the indices, counted from 0
indexOfTag(arr, tags) ==
  LET acc[i \in 0..Len(arr)] ==
        IF i = 0 THEN <<>>
        ELSE IF arr[i].tag \in tags THEN Append(acc[i - 1], i - 1)
        ELSE acc[i - 1]
  IN  acc[Len(arr)]

\* PacketList.filterByTag(...args): a new list
filterByTag(arr, tags) ==
  LET acc[i \in 0..Len(arr)] ==
        IF i = 0 THEN <<>>
        ELSE IF arr[i].tag \in tags THEN push(acc[i - 1], Some(arr[i]))
        ELSE acc[i - 1]
  IN  acc[Len(arr)]

\* PacketList.findPacket(type): Array.prototype.find
findPacket(arr, type) ==
  IF \A i \in 1..Len(arr) : arr[i].tag # type THEN None
  ELSE Some(arr[CHOOSE i \in 1..Len(arr) :
                  /\ arr[i].tag = type
                  /\ \A j \in 1..(i - 1) : arr[j].tag # type])

\* PacketList.concat(packetlist), packetlist another list or array
concat(arr, packetlist) ==
  IF packetlist = None THEN arr ELSE pushAll(arr, Get(packetlist))

InitQuery ==
  /\ QueryUnused
  /\ SecretUnused /\ KeyUnused /\ OpsUnused /\ ListUnused
  /\ FramerUnused /\ EcdsaUnused /\ ReaderUnused

\* the state after an operation: the array, and what the operation was given
\* and returned
QueryDone(op, args, arr, ret) ==
  /\ query' = [arr |-> arr, op |-> op, args |-> args, ret |-> ret,
               before |-> query.arr]
  /\ UNCHANGED <<secretVars, keyVars, opsVars, listVars, framer, ecdsa, reader>>

\* a list is built by pushing packets
QueryBuild ==
  /\ query.op = "none"
  /\ \E packets \in QueryInputs :
       /\ query' = [arr |-> pushAll(<<>>, [i \in 1..Len(packets) |-> Some(packets[i])]),
                    op |-> "new", args |-> {}, ret |-> None, before |-> <<>>]
       /\ UNCHANGED <<secretVars, keyVars, opsVars, listVars, framer, ecdsa, reader>>

QueryIndexOfTag ==
  /\ query.op # "none"
  /\ \E tags \in SUBSET QueryTags :
       QueryDone("indexOfTag", tags, query.arr, Some(indexOfTag(query.arr, tags)))

QueryFilterByTag ==
  /\ query.op # "none"
  /\ \E tags \in SUBSET QueryTags :
       QueryDone("filterByTag", tags, query.arr, Some(filterByTag(query.arr, tags)))

QueryFindPacket ==
  /\ query.op # "none"
  /\ \E type \in QueryTags :
       QueryDone("findPacket", {type}, query.arr, findPacket(query.arr, type))

QueryConcat ==
  /\ query.op # "none" /\ Len(query.arr) <= MaxPackets
  /\ \E other \in Others :
       QueryDone("concat", other, concat(query.arr, other), None)

NextQuery ==
  \/ QueryBuild
  \/ QueryIndexOfTag
  \/ QueryFilterByTag
  \/ QueryFindPacket
  \/ QueryConcat

SpecQuery == InitQuery /\ [][NextQuery]_vars

\* ------------------------------------ read called on a key packet object
\* public fields whose last parameter announces more octets than follow
MalformedPublic(v) ==
  LET b == writePublicKey(generate(NewPacket(v), <<1>>)).bytes
  IN  SubSeq(b, 1, Len(b) - 1)

\* bodies handed to read: those another implementation writes, with a right
\* or wrong checksum and a well-formed or malformed cleartext, one of
\* version 3, and one per version with malformed public parameters
ReadBodies ==
  {foreignBody(v, usage, cleartext, TRUE) :
     v \in Versions, usage \in ForeignUsages,
     cleartext \in {GoodCleartext, BadCleartext}}
  \cup {foreignBody(v, 0, cleartext, FALSE) :
          v \in Versions, cleartext \in {GoodCleartext, BadCleartext}}
  \cup {<<3>> \o Tail(foreignBody(4, 0, GoodCleartext, TRUE))}
  \cup {MalformedPublic(v) : v \in Versions}

InitRead ==
  /\ ReaderUnused
  /\ SecretUnused /\ KeyUnused /\ OpsUnused /\ ListUnused
  /\ FramerUnused /\ EcdsaUnused /\ QueryUnused

\* r: the object when the operation returned or threw, and the error
ReaderDone(op, r) ==
  /\ reader' = [target |-> r.pkt, before |-> reader.target, op |-> op,
                err |-> r.err]
  /\ UNCHANGED <<secretVars, keyVars, opsVars, listVars, framer, ecdsa, query>>

\* new SecretKeyPacket(date, config)
ReaderConstruct(v) ==
  ReaderDone("new", [pkt |-> NewPacket(v), err |-> "none"])

\* generate on a packet that has just been constructed
ReaderGenerate(d) ==
  /\ reader.op \in {"none", "new"}
  /\ ReaderDone("generate", [pkt |-> generate(reader.target, d), err |-> "none"])

\* PublicKeyPacket.read called on the object
ReaderReadPublicKey(bytes) ==
  ReaderDone("readPublicKey", readPublicKey(reader.target, bytes))

\* SecretKeyPacket.read called on the object
ReaderRead(bytes, view) ==
  ReaderDone("read", read(reader.target, bytes, view))

NextRead ==
  \/ \E v \in Versions : ReaderConstruct(v)
  \/ \E d \in Scalars : ReaderGenerate(d)
  \/ \E bytes \in ReadBodies : ReaderReadPublicKey(bytes)
  \/ \E bytes \in ReadBodies, view \in BOOLEAN : ReaderRead(bytes, view)

SpecRead == InitRead /\ [][NextRead]_vars

\* ------------------------------------------------------------------ claims
ObjectOps == {"encrypt", "decrypt", "validate", "clearPrivateParams",
              "makeDummy", "write"}

\* C1: decrypt on a non-dummy packet either completes with privateParams
\* populated, keyMaterial dropped, s2kUsage = 0 and isEncrypted = false, or
\* raises an error and leaves every field of the packet as it was on entry.
C1_DecryptAllOrNothing ==
  (last.op = "decrypt" /\ ~isDummy(prev)) =>
     \/ /\ last.err = "none"
        /\ IsSome(pkt.privateParams)
        /\ pkt.keyMaterial = None
        /\ pkt.s2kUsage = 0
        /\ pkt.isEncrypted = "false"
     \/ /\ last.err # "none"
        /\ pkt = prev

\* a decrypt that failed after the cleartext had been produced
C1_Witness ==
  /\ last.op = "decrypt" /\ last.err = "MalformedSecret"
  /\ prev.isEncrypted = "true" /\ IsSome(last.cleartext)

\* C2: encrypt(p) with a non-empty p on a decrypted non-dummy packet, then
\* write, then read of those octets into a new packet, then decrypt(p): every
\* step completes and privateParams equal the original ones.
C2_ProtectedRoundTrip ==
  /\ chain.stage \in {"written", "read", "decrypted"} => last.err = "none"
  /\ chain.stage = "decrypted" =>
       /\ IsSome(chain.params)
       /\ pkt.privateParams = chain.params
       /\ isDecrypted(pkt)

\* the round trip completed for a version 5 packet protected with AEAD
C2_Witness ==
  /\ chain.stage = "decrypted" /\ last.op = "decrypt"
  /\ pkt.version = 5 /\ prev.s2kUsage = USAGE_AEAD /\ prev.isEncrypted = "true"

\* C3: encrypt(p) and then decrypt(p) on the same packet object completes
\* without error and leaves privateParams equal to the original.
C3_EncryptDecryptSameObject ==
  chain.stage = "decryptedSame" =>
    /\ last.err = "none"
    /\ pkt.privateParams = chain.params

\* C4: on an encrypted non-dummy packet with s2kUsage 253 or 254, decrypt with
\* a passphrase other than the protecting one raises IncorrectPassphrase and
\* changes nothing, and a decrypt with the protecting passphrase right after
\* it succeeds.
C4_WrongPassphrase ==
  /\ (/\ last.op = "decrypt" /\ ~isDummy(prev)
      /\ prev.isEncrypted = "true"
      /\ prev.s2kUsage \in {USAGE_AEAD, USAGE_CFB}
      /\ last.protPass > 0 /\ last.pass # last.protPass)
     => (last.err = "IncorrectPassphrase" /\ pkt = prev)
  /\ (chain.stage = "rightAfterWrong" /\ chain.ok)
     => (last.err = "none" /\ IsSome(pkt.privateParams) /\ isDecrypted(pkt))

\* the right passphrase succeeded after a wrong one had been refused (CFB)
C4_Witness ==
  /\ chain.stage = "rightAfterWrong" /\ chain.ok
  /\ last.err = "none" /\ prev.s2kUsage = USAGE_CFB

\* C5: encrypt on a non-dummy packet whose secret material is already
\* protected raises AlreadyEncrypted and changes no field; two consecutive
\* encrypt calls with a non-empty passphrase never both succeed.
C5_AlreadyEncrypted ==
  /\ (/\ last.op = "encrypt" /\ ~isDummy(prev)
      /\ prev.s2kUsage # 0 /\ IsSome(prev.keyMaterial))
     => (last.err = "AlreadyEncrypted" /\ pkt = prev)
  /\ chain.stage # "encryptedAgain"

\* the octets of an unprotected secret-key packet for the parameters params
UnprotectedBody(p, params) ==
  LET c == serializePrivate(params)
  IN  writePublicKey(p).bytes \o <<0>>
      \o (IF p.version = 5 THEN <<0>> \o writeNumber(Len(c), 4) ELSE <<>>)
      \o c \o writeNumber(Sum(c) % 65536, 2)

\* C6: encrypt with the empty passphrase on a decrypted non-dummy packet
\* leaves s2kUsage = 0, isDecrypted() true and privateParams unchanged, and the
\* write that follows emits the unprotected form.
C6_StripProtection ==
  /\ (/\ last.op = "encrypt" /\ last.pass = 0
      /\ isDecrypted(prev) /\ ~isDummy(prev))
     => /\ last.err = "none"
        /\ pkt.s2kUsage = 0
        /\ isDecrypted(pkt)
        /\ pkt.privateParams = prev.privateParams
  /\ chain.stage = "strippedWritten"
     => /\ last.err = "none"
        /\ IsSome(wire) /\ IsSome(chain.params)
        /\ Get(wire).bytes = UnprotectedBody(pkt, Get(chain.params))

\* protection applied by encrypt(p) was stripped and the packet written (v5)
C6_Witness ==
  /\ chain.stage = "strippedWritten" /\ last.op = "write"
  /\ pkt.version = 5
  /\ pkt.s2k.type = "iterated" /\ pkt.symmetric = "aes256"

\* the octets of a dummy packet: the public key, usage 254, AES-256 and the
\* GNU dummy specifier, and nothing after it
DummyBody(p) ==
  writePublicKey(p).bytes \o <<USAGE_CFB>>
  \o (IF p.version = 5 THEN <<7>> ELSE <<>>)
  \o <<SYM_AES256, S2K_GNU, 0, 71, 78, 85, 1>>

HoldsCleartext(km, params) ==
  /\ IsSome(km)
  /\ LET c == serializePrivate(params)
     IN  Len(Get(km)) >= Len(c) /\ SubSeq(Get(km), 1, Len(c)) = c

\* C8: after clearPrivateParams on a decrypted non-dummy packet privateParams
\* is dropped, every parameter buffer is zero-filled and keyMaterial does not
\* hold the cleartext parameters.
C8_Zeroization ==
  (/\ last.op = "clearPrivateParams" /\ ~isDummy(prev)
   /\ isDecrypted(prev) /\ IsSome(prev.privateParams))
  => /\ last.err = "none"
     /\ pkt.privateParams = None
     /\ \A i \in 1..Len(last.buffers) : AllZero(last.buffers[i])
     /\ ~HoldsCleartext(pkt.keyMaterial, Get(prev.privateParams))

\* C9: when decrypt fails after the cleartext has been produced, the
\* cleartext buffer is all zeros when the error reaches the caller.
C9_CleartextZeroedOnError ==
  (last.op = "decrypt" /\ last.err # "none" /\ IsSome(last.cleartext))
  => AllZero(Get(last.cleartext))

\* C10: a populated packet holds exactly one of keyMaterial and privateParams
\* if it is not a dummy, and neither if it is a dummy.
C10_OneCarrier ==
  populated =>
    IF isDummy(pkt)
      THEN pkt.keyMaterial = None /\ pkt.privateParams = None
      ELSE IsSome(pkt.keyMaterial) # IsSome(pkt.privateParams)

\* C11: in every state of a populated packet the aead field is set if and
\* only if s2kUsage = 253.
C11_AeadIffUsage253 ==
  populated => ((pkt.aead # "null") <=> (pkt.s2kUsage = USAGE_AEAD))

\* the hash getFingerprintBytes is specified to return for the fields of p
ExpectedFingerprint(p, written) ==
  IF p.version = 5
    THEN sha256(<<154>> \o writeNumber(Len(written), 4) \o written)
    ELSE sha1(<<153>> \o writeNumber(Len(written), 2) \o written)

\* C12: whenever getFingerprintBytes returns, for a packet of version 4 or 5,
\* it returns the hash (SHA-1 for v4, SHA-256 for v5) of writeForHash of the
\* packet's current version, created, algorithm and publicParams.
C12_FingerprintOfCurrentFields ==
  (keyLast.op = "getFingerprintBytes" /\ keyLast.err = "none"
   /\ keyPkt.version \in Versions)
  => keyLast.ret = Some(ExpectedFingerprint(keyPkt, writePublicKey(keyPkt).bytes))

\* the eight octets of fingerprint fp that make the key ID for a version
KeyIDOf(version, fp) == IF version = 5 THEN SubSeq(fp, 1, 8) ELSE SubSeq(fp, 13, 20)

\* C13: whenever getKeyID returns, for a populated packet of version 4 or 5,
\* the key ID is bytes 12..20 of the fingerprint the packet reports for version 4 and
\* bytes 0..8 of it for version 5.
C13_KeyIDFromFingerprint ==
  (keyLast.op = "getKeyID" /\ keyLast.err = "none" /\ keyPkt.version \in Versions
   /\ keyPkt.algorithm = "ecdsa" /\ IsSome(keyPkt.publicParams))
  => /\ getFingerprintBytes(keyPkt).err = "none"
     /\ keyLast.ret =
          Some(KeyIDOf(keyPkt.version, Get(getFingerprintBytes(keyPkt).ret)))

\* the layout of a written public key: the four-octet length of the
\* parameters is present exactly for version 5
PublicLayout(version, bytes, params) ==
  IF version = 5
    THEN /\ Len(bytes) = 10 + Len(params)
         /\ SubSeq(bytes, 7, 10) = writeNumber(Len(params), 4)
         /\ SubSeq(bytes, 11, Len(bytes)) = params
    ELSE /\ Len(bytes) = 6 + Len(params)
         /\ SubSeq(bytes, 7, Len(bytes)) = params

\* C14: reading write(P), for a valid public-key packet P of version 4 or 5,
\* into a new packet gives P's version, created, algorithm and publicParams and
\* consumes every octet; writing the new packet gives the same octets, which
\* carry the four-octet parameter length exactly for version 5.
C14_PublicRoundTrip ==
  (keyLast.op = "readWire" /\ Get(keyLast.src).version \in Versions)
  => /\ keyLast.err = "none"
     /\ keyPkt.version = Get(keyLast.src).version
     /\ keyPkt.created = Get(keyLast.src).created
     /\ keyPkt.algorithm = Get(keyLast.src).algorithm
     /\ keyPkt.publicParams = Get(keyLast.src).publicParams
     /\ keyLast.pos = Len(keyLast.bytes)
     /\ writePublicKey(keyPkt) = [err |-> "none", bytes |-> keyLast.bytes]
     /\ PublicLayout(Get(keyLast.src).version, keyLast.bytes,
                     serializePublic(Get(Get(keyLast.src).publicParams)))

C14_Witness ==
  /\ keyLast.op = "readWire" /\ keyLast.err = "none"
  /\ keyPkt.version = 5 /\ keyPkt.created.seconds # CREATED
  /\ keyPkt.publicParams = Some([oid |-> OID_P256, Q |-> <<4, 1, 0>>])

\* C17: read of a body whose version octet is not 3 fails with
\* UnsupportedVersion, and write of a packet that read has just accepted
\* returns the same thirteen octets.
C17_OnePassVersionAndRoundTrip ==
  /\ (opsLast.op = "read" /\ Get(opsLast.input)[1] # OPS_VERSION)
     => opsLast.err = "UnsupportedVersion"
  /\ (opsLast.op = "write" /\ IsSome(opsLast.input))
     => (opsLast.err = "none" /\ opsLast.bytes = Get(opsLast.input))

\* the trailing packet sig is a Signature packet whose four fields equal
\* those of the one-pass packet p
TrailingMatches(p, sig) ==
  /\ IsSome(sig) /\ Get(sig).tag = "signature"
  /\ p.signatureType = Some(Get(sig).signatureType)
  /\ p.hashAlgorithm = Some(Get(sig).hashAlgorithm)
  /\ p.publicKeyAlgorithm = Some(Get(sig).publicKeyAlgorithm)
  /\ p.issuerKeyID = Some(Get(sig).issuerKeyID)

\* C18: verify copies hashed onto the trailing signature and calls its verify
\* if and only if that packet is a Signature packet with equal signatureType,
\* hashAlgorithm, publicKeyAlgorithm and issuerKeyID; an absent packet or one
\* of another type raises MissingTrailingSignature, a differing field raises
\* MismatchedTrailingSignature, and then the packet is left as it was.
C18_OnePassBinding ==
  opsLast.op = "verify" =>
    /\ opsLast.called <=> TrailingMatches(ops, opsLast.sigBefore)
    /\ opsLast.called
         => (opsLast.err = "none" /\ Get(opsSig).hashed = ops.hashed
             /\ opsSig = Some([Get(opsLast.sigBefore) EXCEPT !.hashed = ops.hashed]))
    /\ (~IsSome(opsLast.sigBefore) \/ Get(opsLast.sigBefore).tag # "signature")
         => opsLast.err = "MissingTrailingSignature"
    /\ (IsSome(opsLast.sigBefore) /\ Get(opsLast.sigBefore).tag = "signature"
        /\ ~TrailingMatches(ops, opsLast.sigBefore))
         => opsLast.err = "MismatchedTrailingSignature"
    /\ opsLast.err # "none" => (opsSig = opsLast.sigBefore /\ ~opsLast.called)

C18_Witness ==
  /\ opsLast.op = "verify" /\ opsLast.called
  /\ IsSome(ops.hashed) /\ Get(opsLast.sigBefore).hashed = None
  /\ Get(opsSig).hashed = ops.hashed

\* C19: at every moment the packets in the list's array, followed by those
\* its stream field has delivered, followed by those still in the stream,
\* are exactly the input packets parsed so far that parsed successfully, in
\* input order, each once.
C19_WireOrder ==
  list.arr \o caller.delivered \o pipe.queue = Accepted(pipe.input, pipe.pos)

C19_Witness ==
  /\ caller.pc = "returned" /\ Len(list.arr) >= 2 /\ caller.delivered # <<>>
  /\ list.arr[Len(list.arr)].index \in caller.unread

\* every packet of the first n tokens, whether or not it parses
AllPackets(input, n) == [i \in 1..n |-> PacketAt(input, i)]

\* the position of the first streaming-capable packet of the input, 0 if
\* there is none
FirstStreaming(input) ==
  IF \A i \in 1..Len(input) : ~supportsStreaming(input[i].tag) THEN 0
  ELSE CHOOSE i \in 1..Len(input) :
         /\ supportsStreaming(input[i].tag)
         /\ \A j \in 1..(i - 1) : ~supportsStreaming(input[j].tag)

\* C20 as stated: when read has returned, the array holds every input packet
\* up to and including the first streaming-capable one and nothing after it;
\* without a streaming-capable packet it holds all packets and stream is null.
C20_ArrayHoldsEveryInputPacket ==
  caller.pc = "returned" =>
    IF FirstStreaming(pipe.input) = 0
      THEN /\ list.arr = AllPackets(pipe.input, Len(pipe.input))
           /\ list.stream = "null"
      ELSE /\ list.arr = AllPackets(pipe.input, FirstStreaming(pipe.input))
           /\ list.stream = "set"

\* C20 amended: when read has returned, the array holds every input packet
\* that parsed successfully up to and including the first streaming-capable
\* one and nothing after it; without a streaming-capable packet it holds all
\* packets that parsed and stream is null; otherwise every later packet is
\* delivered by the stream field only.
C20_ArrayHoldsParsedPackets ==
  caller.pc = "returned" =>
    IF FirstStreaming(pipe.input) = 0
      THEN /\ list.arr = Accepted(pipe.input, Len(pipe.input))
           /\ list.stream = "null"
           /\ caller.delivered = <<>> /\ pipe.queue = <<>>
      ELSE /\ list.arr = Accepted(pipe.input, FirstStreaming(pipe.input))
           /\ list.stream = "set"
           /\ \A k \in 1..Len(caller.delivered \o pipe.queue) :
                (caller.delivered \o pipe.queue)[k].index
                  > FirstStreaming(pipe.input)

C20_Witness ==
  /\ caller.pc = "returned" /\ pipe.tolerant
  /\ FirstStreaming(pipe.input) = 3
  /\ Len(list.arr) = 2 /\ list.stream = "set"

\* whether the sequence bytes ends with the sequence tail
EndsWith(bytes, tail) ==
  /\ Len(bytes) >= Len(tail)
  /\ SubSeq(bytes, Len(bytes) - Len(tail) + 1, Len(bytes)) = tail

\* the two-octet big-endian encoding of the sum of the octets mod 65536
SumOctets(bytes) == <<(Sum(bytes) % 65536) \div 256, (Sum(bytes) % 65536) % 256>>

\* C15: write of a decrypted, unprotected secret packet (s2kUsage = 0, version
\* 4 or 5) ends with the serialized private parameters followed by the
\* two-octet sum of those octets mod 65536; read of those octets succeeds and
\* yields equal privateParams with isEncrypted = false; and read of an
\* unprotected body whose last two octets differ from that sum fails with
\* ChecksumMismatch before any private parameter is parsed, whether or not the
\* cleartext would parse.
C15_UnprotectedRoundTrip ==
  /\ (/\ last.op = "write"
      /\ prev.s2kUsage = 0 /\ isDecrypted(prev) /\ ~isDummy(prev)
      /\ IsSome(prev.privateParams))
     => /\ last.err = "none"
        /\ IsSome(wire)
        /\ EndsWith(Get(wire).bytes,
                    serializePrivate(Get(prev.privateParams))
                      \o SumOctets(serializePrivate(Get(prev.privateParams))))
        /\ \A view \in BOOLEAN :
             /\ read(NewPacket(4), Get(wire).bytes, view).err = "none"
             /\ read(NewPacket(4), Get(wire).bytes, view).pkt.privateParams
                  = prev.privateParams
             /\ isDecrypted(read(NewPacket(4), Get(wire).bytes, view).pkt)
  /\ \A v \in Versions, cleartext \in {GoodCleartext, BadCleartext},
        view \in BOOLEAN :
       /\ read(NewPacket(4), foreignBody(v, 0, cleartext, FALSE), view).err
            = "ChecksumMismatch"
       /\ read(NewPacket(4), foreignBody(v, 0, cleartext, FALSE), view)
            .pkt.privateParams = None

\* an unprotected version 5 packet with a scalar of two octets has been written
C15_Witness ==
  /\ last.op = "write" /\ last.err = "none" /\ IsSome(wire)
  /\ prev.version = 5 /\ prev.s2kUsage = 0 /\ isDecrypted(prev) /\ ~isDummy(prev)
  /\ IsSome(prev.privateParams) /\ Len(Get(prev.privateParams).d) = 2

\* C16: for every well-formed protected secret-key body b of version 4 or 5
\* and of every s2kUsage form read accepts (253, 254, 255, or a direct
\* symmetric-algorithm code without S2K specifier), read(b) followed by
\* write() completes without error and returns exactly b.
C16_ProtectedReadWrite ==
  (chain.stage = "foreignWritten" /\ chain.pass # 0)
    => /\ last.err = "none"
       /\ IsSome(wire)
       /\ Get(wire).bytes = Get(chain.params)

\* C30: decrypt on a non-dummy, not-decrypted packet goes on to the S2K and
\* the cipher only when s2kUsage is 253 or 254; when s2kUsage is 255 or a
\* direct symmetric-algorithm code it raises InsecureS2K, produces no
\* cleartext and leaves the packet unchanged; and InsecureS2K is raised in no
\* other situation, never for a packet whose s2kUsage is 0.
C30_InsecureS2KOnlyForLegacyUsage ==
  last.op = "decrypt" =>
    /\ (~isDummy(prev) /\ ~isDecrypted(prev)
        /\ prev.s2kUsage \in {USAGE_AEAD, USAGE_CFB})
       => last.err # "InsecureS2K"
    /\ (~isDummy(prev) /\ ~isDecrypted(prev)
        /\ prev.s2kUsage \notin {0, USAGE_AEAD, USAGE_CFB})
       => (last.err = "InsecureS2K" /\ pkt = prev /\ last.cleartext = None)
    /\ last.err = "InsecureS2K"
       => (/\ ~isDummy(prev) /\ ~isDecrypted(prev)
           /\ prev.s2kUsage \notin {0, USAGE_AEAD, USAGE_CFB})

\* the position of the first token whose error aborts the list, 0 if none
FirstAbort(input, tolerant) ==
  IF \A i \in 1..Len(input) :
       parseError(input[i]) = "none" \/ (tolerant /\ ~supportsStreaming(input[i].tag))
    THEN 0
  ELSE CHOOSE i \in 1..Len(input) :
         /\ parseError(input[i]) # "none"
         /\ ~tolerant \/ supportsStreaming(input[i].tag)
         /\ \A j \in 1..(i - 1) :
              parseError(input[j]) = "none"
                \/ (tolerant /\ ~supportsStreaming(input[j].tag))

\* the packets of the tokens of the input that raise no error, in input order
Survivors(input) ==
  SelectSeq(AllPackets(input, Len(input)),
            LAMBDA q : parseError(input[q.index]) = "none")

\* read has returned with the stream exhausted, or its caller has read the
\* stream field to its normal end
EndedNormally ==
  /\ caller.pc = "returned"
  /\ list.stream = "null" \/ caller.ended = "done"

\* read has thrown, or the consumption of the stream field has
ReadFailed == caller.pc = "failed" \/ caller.ended = "error"

\* C21: a per-packet parse error of a tag that is not streaming-capable under
\* config.tolerant drops that packet alone, and every other packet of the
\* input is still delivered in order; with config.tolerant off, or for a
\* streaming-capable tag, the output is aborted with that error at the first
\* such packet, and read or the consumption of the stream field fails (it
\* never ends normally).
C21_TolerantSkipOrAbort ==
  /\ pipe.state = "closed" =>
       /\ FirstAbort(pipe.input, pipe.tolerant) = 0
       /\ pipe.pos = Len(pipe.input)
  /\ EndedNormally =>
       /\ pipe.state = "closed"
       /\ list.arr \o caller.delivered = Survivors(pipe.input)
  /\ (pipe.state = "errored" /\ pipe.inputErr = "none") =>
       /\ pipe.pos = FirstAbort(pipe.input, pipe.tolerant)
       /\ pipe.pos > 0
       /\ pipe.cause = parseError(pipe.input[pipe.pos])
       /\ ~EndedNormally
  /\ ReadFailed => pipe.state = "errored"
  /\ (pipe.inputErr = "none" /\ pipe.state = "open") =>
       \A i \in 1..pipe.pos :
         parseError(pipe.input[i]) = "none"
           \/ (pipe.tolerant /\ ~supportsStreaming(pipe.input[i].tag))

\* under config.tolerant the second of three packets was dropped and the
\* third, a streaming-capable one, failed and aborted the list, which the
\* drain loop of read has met
C21_Witness ==
  /\ pipe.tolerant /\ Len(pipe.input) = 3 /\ pipe.inputErr = "none"
  /\ pipe.input[1].ok
  /\ parseError(pipe.input[2]) = "ParseError"
  /\ ~supportsStreaming(pipe.input[2].tag)
  /\ parseError(pipe.input[3]) = "ParseError"
  /\ supportsStreaming(pipe.input[3].tag)
  /\ pipe.state = "errored" /\ caller.pc = "failed" /\ Len(list.arr) = 1

\* C22: a packet whose tag is absent from allowedPackets is rejected with
\* DisallowedPacket and the error surfaces to the caller, for either value of
\* config.tolerant and whatever the tag: once the pipeline has come to such a
\* packet the output is aborted with DisallowedPacket at that packet, and the
\* packet is never skipped.
C22_DisallowedAlwaysSurfaces ==
  \A i \in 1..pipe.pos :
    ~pipe.input[i].allowed =>
      /\ pipe.state = "errored"
      /\ pipe.pos = i
      /\ pipe.cause = "DisallowedPacket"
      /\ ~EndedNormally

\* C23: when the input stream is cancelled or errors with cause e, before,
\* during or after the drain loop of read, the output stream is aborted with
\* the same cause e: it is never closed normally, and no packet is delivered
\* after the abort.
C23_InputErrorAborts ==
  pipe.inputErr # "none" =>
    /\ pipe.state # "closed"
    /\ ~EndedNormally
    /\ pipe.state = "errored" =>
         /\ pipe.cause = pipe.inputErr
         /\ pipe.queue = <<>>
         /\ list.arr \o caller.delivered = Accepted(pipe.input, pipe.pos)
    /\ ReadFailed => pipe.state = "errored"

\* the input failed after read had returned and its caller had taken a
\* packet from the stream field; the caller has met the abort
C23_Witness ==
  /\ pipe.inputErr = "SourceError" /\ pipe.state = "errored"
  /\ pipe.cause = "SourceError"
  /\ caller.pc = "returned" /\ caller.delivered # <<>> /\ caller.ended = "error"

\* what a reader of the framed body finds from position i on: the payload of
\* the partial-length chunks and of the final simple-length part, the sum of
\* the announced lengths, and whether the framing ends exactly at the end
RECURSIVE readFramedFrom(_, _)
readFramedFrom(bytes, i) ==
  IF i > Len(bytes) THEN [payload |-> <<>>, total |-> 0, ok |-> FALSE]
  ELSE IF bytes[i] >= PARTIAL_BASE /\ bytes[i] < 255
    THEN IF i + 2 ^ (bytes[i] - PARTIAL_BASE) > Len(bytes)
           THEN [payload |-> <<>>, total |-> 0, ok |-> FALSE]
           ELSE [payload |->
                   SubSeq(bytes, i + 1, i + 2 ^ (bytes[i] - PARTIAL_BASE))
                     \o readFramedFrom(bytes, i + 1 + 2 ^ (bytes[i] - PARTIAL_BASE)).payload,
                 total |->
                   2 ^ (bytes[i] - PARTIAL_BASE)
                     + readFramedFrom(bytes, i + 1 + 2 ^ (bytes[i] - PARTIAL_BASE)).total,
                 ok |-> readFramedFrom(bytes, i + 1 + 2 ^ (bytes[i] - PARTIAL_BASE)).ok]
  ELSE IF bytes[i] < 192
    THEN [payload |-> SubSeq(bytes, i + 1, Len(bytes)), total |-> bytes[i],
          ok |-> Len(bytes) - i = bytes[i]]
  ELSE IF bytes[i] < PARTIAL_BASE
    THEN IF i + 1 > Len(bytes) THEN [payload |-> <<>>, total |-> 0, ok |-> FALSE]
         ELSE [payload |-> SubSeq(bytes, i + 2, Len(bytes)),
               total |-> (bytes[i] - 192) * 256 + bytes[i + 1] + 192,
               ok |-> Len(bytes) - (i + 1)
                        = (bytes[i] - 192) * 256 + bytes[i + 1] + 192]
  ELSE IF i + 4 > Len(bytes) THEN [payload |-> <<>>, total |-> 0, ok |-> FALSE]
  ELSE [payload |-> SubSeq(bytes, i + 5, Len(bytes)),
        total |-> readNumber(SubSeq(bytes, i + 1, i + 4)),
        ok |-> Len(bytes) - (i + 4) = readNumber(SubSeq(bytes, i + 1, i + 4))]

\* the octets a streamed write has emitted, in order
Emitted == concatArrays(framer.out)

\* C24: streamed write loses and reorders nothing: when the body stream has
\* ended, the octets emitted after the tag octet, with the partial-length and
\* the final simple-length headers removed, are the body in order, and the
\* lengths the headers announce sum to the length L of the body, for chunks
\* of any sizes, also for L < 512 and L = 0.
C24_StreamedWriteKeepsPayload ==
  framer.pc = "done" =>
    /\ framer.source = <<>>
    /\ SubSeq(Emitted, 1, 1) = writeTag(LITERAL_DATA)
    /\ readFramedFrom(Emitted, 2).ok
    /\ readFramedFrom(Emitted, 2).payload = BodyChunk(0, framer.fed)
    /\ readFramedFrom(Emitted, 2).total = framer.fed

\* a body of three chunks was framed as two partial chunks and a residue
C24_Witness ==
  /\ framer.pc = "done" /\ Len(framer.steps) = 3 /\ framer.fed = 1611
  /\ framer.steps[3].size > 0

\* the sum of the sizes of the first n steps
RECURSIVE SizeSum(_, _)
SizeSum(steps, n) == IF n = 0 THEN 0 ELSE steps[n].size + SizeSum(steps, n - 1)

PlatformCall ==
  IF ecdsa.op = "sign"
    THEN IF ecdsa.curve.type = "web" THEN "webSign" ELSE "nodeSign"
    ELSE IF ecdsa.curve.type = "web" THEN "webVerify" ELSE "nodeVerify"

PlatformOutcome ==
  IF ecdsa.op = "sign" THEN ecdsa.env.platSign ELSE ecdsa.env.platVerify

SoftwareCall == IF ecdsa.op = "sign" THEN "ellipticSign" ELSE "ellipticVerify"

\* what the software tier returns or throws in this environment
SoftwareErr ==
  IF ecdsa.op = "sign"
    THEN IF ecdsa.env.softSign = "ok" THEN "none" ELSE ecdsa.env.softSign
    ELSE IF ecdsa.env.softVerify = "Error" THEN "Error" ELSE "none"

SoftwareRet ==
  IF ecdsa.op = "sign"
    THEN IF ecdsa.env.softSign = "ok" THEN "softwareSignature" ELSE "none"
    ELSE IF ecdsa.env.softVerify = "Error" THEN "none" ELSE ecdsa.env.softVerify

\* C25: sign and verify on a non-stream message, on a curve of the web or of
\* the node tier: when the platform function raises a key-integrity error
\* (DataError or OperationError) and the curve is not p521, the error
\* propagates and the software tier is not invoked; when it raises any other
\* error, or the curve is p521, the software tier is invoked with the
\* pre-computed digest and its result is returned.
C25_PlatformFallbackPolicy ==
  (/\ ecdsa.op \in {"sign", "verify"} /\ ecdsa.hashAlgo
   /\ ecdsa.message = "bytes" /\ ecdsa.curve.type \in {"web", "node"}
   /\ PlatformOutcome \in PlatformErrors)
  => IF PlatformOutcome \in {"DataError", "OperationError"}
          /\ ecdsa.curve.name # "p521"
       THEN /\ ecdsa.r.err = PlatformOutcome
            /\ ecdsa.r.calls = <<PlatformCall>>
       ELSE /\ ecdsa.r.calls = <<PlatformCall, SoftwareCall>>
            /\ ecdsa.r.digest = "hashed"
            /\ ecdsa.r.err = SoftwareErr
            /\ ecdsa.r.ret = SoftwareRet

\* C26: when the message passed to sign is a stream or is absent, no
\* platform function is invoked, whatever the curve's tier, and the signature
\* is the software tier's, made from the pre-computed digest.
C26_StreamSignsInSoftware ==
  (ecdsa.op = "sign" /\ ecdsa.message \in {"stream", "absent"})
  => /\ ecdsa.r.calls = <<"ellipticSign">>
     /\ ecdsa.r.digest = "hashed"
     /\ ecdsa.r.err = SoftwareErr
     /\ ecdsa.r.ret = SoftwareRet

\* a stream was signed on a curve of the web tier whose platform function
\* would have rejected the key
C26_Witness ==
  /\ ecdsa.op = "sign" /\ ecdsa.message = "stream"
  /\ ecdsa.curve.type = "web" /\ ecdsa.curve.name = "p256"
  /\ ecdsa.env.platSign = "DataError"
  /\ ecdsa.r.ret = "softwareSignature"

\* C27: validateParams never raises for a curve of the web or of the node
\* tier: it signs and then verifies, returns false whenever the sign step or
\* the verify step fails or throws, in either tier and after a fallback, and
\* returns true only when the verify step returned true; for a curve whose
\* key type is not ECDSA it returns false without signing.
C27_ValidateParamsNeverRaises ==
  ecdsa.op = "validateParams" =>
    /\ ecdsa.curve.keyType # "ecdsa" =>
         (ecdsa.r.err = "none" /\ ecdsa.r.ret = "false" /\ ecdsa.r.calls = <<>>)
    /\ (ecdsa.curve.keyType = "ecdsa" /\ ecdsa.curve.type \in {"web", "node"}) =>
         /\ ecdsa.r.err = "none"
         /\ ecdsa.r.ret \in {"true", "false"}
         /\ ecdsa.r.calls # <<>>
         /\ ecdsa.r.calls[1] \in {"webSign", "nodeSign"}
         /\ ecdsa.r.signStep = sign(ecdsa.curve, "bytes", ecdsa.env)
         /\ ecdsa.r.signStep.err # "none" =>
              (ecdsa.r.ret = "false" /\ ecdsa.r.verifyStep = NoStep)
         /\ ecdsa.r.signStep.err = "none" =>
              /\ ecdsa.r.verifyStep = verify(ecdsa.curve, TRUE, "bytes", ecdsa.env)
              /\ ecdsa.r.verifyStep.err # "none" => ecdsa.r.ret = "false"
              /\ ecdsa.r.verifyStep.err = "none"
                   => ecdsa.r.ret = ecdsa.r.verifyStep.ret

\* on a web curve the platform could not sign, the software tier signed, and
\* the platform verified the signature
C27_Witness ==
  /\ ecdsa.op = "validateParams" /\ ecdsa.curve.type = "web"
  /\ ecdsa.env.platSign = "NotSupportedError"
  /\ ecdsa.r.calls = <<"webSign", "ellipticSign", "webVerify">>
  /\ ecdsa.r.ret = "true"

\* the packets among the elements of an array, in order
PacketsOf(elements) ==
  LET kept == SelectSeq(elements, LAMBDA e : e # None)
  IN  [i \in 1..Len(kept) |-> Get(kept[i])]

PublicFields(p) == <<p.version, p.created, p.algorithm, p.publicParams>>

\* the fields of the secret part that SecretKeyPacket.read assigns
SecretFields(p) == <<p.s2kUsage, p.keyMaterial, p.isEncrypted, p.privateParams>>

\* a read that failed with one of the errors of the public fields
PublicReadFailed ==
  /\ reader.op \in {"readPublicKey", "read"}
  /\ reader.err \in {"UnsupportedVersion", "MalformedParams"}

\* a read that failed with one of the errors of the unprotected secret
SecretReadFailed ==
  /\ reader.op = "read"
  /\ reader.err \in {"ChecksumMismatch", "MalformedSecret"}

\* C31: a read of a key packet that fails leaves the packet as it was.  After
\* UnsupportedVersion or a parameter parse error version, created, algorithm
\* and publicParams are those before the call; after ChecksumMismatch or
\* MalformedSecret s2kUsage, keyMaterial, isEncrypted and privateParams are
\* those before the call; and no failed read leaves a packet that reports
\* isDecrypted() while it holds no privateParams.
C31_FailedReadLeavesPacket ==
  /\ PublicReadFailed => PublicFields(reader.target) = PublicFields(reader.before)
  /\ SecretReadFailed => SecretFields(reader.target) = SecretFields(reader.before)
  /\ (reader.op \in {"readPublicKey", "read"} /\ reader.err # "none")
       => ~(isDecrypted(reader.target) /\ ~IsSome(reader.target.privateParams))

\* C32: in every state of a non-dummy SecretKeyPacket that read, generate,
\* encrypt, decrypt, write, clearPrivateParams and makeDummy can reach, the
\* protection flags agree: isEncrypted = true implies a non-zero s2kUsage and
\* keyMaterial that is present, and isEncrypted = false implies privateParams
\* that is present.
C32_ProtectionFlagsAgree ==
  ~isDummy(pkt) =>
    /\ pkt.isEncrypted = "true" => (pkt.s2kUsage # 0 /\ IsSome(pkt.keyMaterial))
    /\ pkt.isEncrypted = "false" => IsSome(pkt.privateParams)

\* clearPrivateParams was called on a non-dummy packet without privateParams
ClearedWithoutParams ==
  /\ last.op = "clearPrivateParams"
  /\ ~isDummy(prev)
  /\ ~IsSome(prev.privateParams)

\* C33: clearPrivateParams is idempotent and total on non-dummy packets:
\* called when privateParams is already absent (a second call in a row, or a
\* packet read in protected form and never decrypted) it raises no error and
\* leaves the packet as a single call leaves it, without privateParams and
\* with isEncrypted = true, every other field as it was.
C33_ClearPrivateParamsIdempotent ==
  ClearedWithoutParams =>
    /\ last.err = "none"
    /\ pkt = [prev EXCEPT !.isEncrypted = "true"]

====
